---- MODULE Spec2Model ----
(***************************************************************************)
(* Model of vortex/networks/modules/backbones/efficientnet.py: the padding *)
(* resolver, the channel rounder, the stage-string decoder, the depth      *)
(* scaler, the three block variants and the network assembler.             *)
(*                                                                         *)
(* Floats are modelled as exact rationals [n |-> numerator, d |->          *)
(* denominator]; the multipliers drawn below are multiples of 1/4 (or      *)
(* 1/2), which binary floating point represents exactly, so that the exact *)
(* arithmetic of the model and the float arithmetic of the code agree on   *)
(* the inputs that are enumerated.  Strings that the code takes apart      *)
(* (stage strings) are sequences of one-character strings.                 *)
(***************************************************************************)
EXTENDS Integers, Sequences, FiniteSets, TLC

VARIABLES
    pc,          \* position of the operation under way
    args,        \* the inputs of the operation (arguments of the call)
    ret,         \* the value(s) returned so far
    self,        \* fields of the EfficientNet object under construction
    blocks_args, \* _decode_block_def: the list of per-stage layer arguments
    stage_args,  \* the stage being decoded / scaled / instantiated
    repeats,     \* _decode_block_def: the popped 'repeat' values of the stage
    idx          \* loop indices: [stage |-> .., layer |-> ..]

vars == <<pc, args, ret, self, blocks_args, stage_args, repeats, idx>>

buildVars == <<self, blocks_args, stage_args, repeats, idx>>

----------------------------------------------------------------------------
(* Bounds of the enumerated inputs.                                        *)

MaxRepeat == 4
MaxSubstages == 3
MaxDepthQuarters == 10
MaxChannel == 24
MaxIn == 8
MaxKernel == 5
MaxStride == 3
MaxDilation == 2

----------------------------------------------------------------------------
(* Arithmetic of the Python built-ins the code uses.                       *)

Frac(n, d) == [n |-> n, d |-> d]

Max(a, b) == IF a >= b THEN a ELSE b

\* math.ceil(n / d), d > 0
Ceil(n, d) == -((-n) \div d)

\* Python 3 round(n / d), d > 0: to nearest, ties to the even integer
Round(n, d) ==
    LET f == n \div d
        rem == n - f * d
    IN  IF 2 * rem < d THEN f
        ELSE IF 2 * rem > d THEN f + 1
        ELSE IF f % 2 = 0 THEN f ELSE f + 1

RECURSIVE Sum(_)
Sum(s) == IF s = <<>> THEN 0 ELSE Head(s) + Sum(Tail(s))

Reverse(s) == [i \in 1..Len(s) |-> s[Len(s) + 1 - i]]

RECURSIVE Copies(_, _)
\* [deepcopy(x) for _ in range(n)]
Copies(x, n) == IF n <= 0 THEN <<>> ELSE <<x>> \o Copies(x, n - 1)

RECURSIVE Flatten(_)
Flatten(ss) == IF ss = <<>> THEN <<>> ELSE Head(ss) \o Flatten(Tail(ss))

----------------------------------------------------------------------------
(* Depth scaler: EfficientNet._scale_stage_depth.                          *)

NumRepeatScaled_floor(num_repeat, depth_multiplier) ==
    (num_repeat * depth_multiplier.n) \div depth_multiplier.d

\* num_repeat_scaled = int(math.ceil(num_repeat * depth_multiplier))
NumRepeatScaled(num_repeat, depth_multiplier) ==
    Ceil(num_repeat * depth_multiplier.n, depth_multiplier.d)

ScaledRepeat_nomax(r, num_repeat, num_repeat_scaled) ==
    Round(r * num_repeat_scaled, num_repeat)

\* rs = max(1, round(r/num_repeat * num_repeat_scaled))
ScaledRepeat(r, num_repeat, num_repeat_scaled) ==
    Max(1, Round(r * num_repeat_scaled, num_repeat))

RECURSIVE ScaleLoop(_, _, _, _)
\* for r in reversed(repeats): the scaled repeats in the order they are appended
ScaleLoop(reps, i, num_repeat, num_repeat_scaled) ==
    IF i = 0 THEN <<>>
    ELSE LET r == reps[i]
             rs == ScaledRepeat(r, num_repeat, num_repeat_scaled)
         IN  <<rs>> \o ScaleLoop(reps, i - 1, num_repeat - r, num_repeat_scaled - rs)

\* repeats_scaled, after list(reversed(repeats_scaled))
RepeatsScaled(reps, depth_multiplier) ==
    Reverse(ScaleLoop(reps, Len(reps), Sum(reps),
                      NumRepeatScaled(Sum(reps), depth_multiplier)))

\* stage_args_scaled: rep copies of each substage's arguments, in order
scale_stage_depth(sargs, reps, depth_multiplier) ==
    LET rs == RepeatsScaled(reps, depth_multiplier)
        n == IF Len(sargs) <= Len(rs) THEN Len(sargs) ELSE Len(rs)
    IN  Flatten([i \in 1..n |-> Copies(sargs[i], rs[i])])

----------------------------------------------------------------------------
(* Channel rounder: round_channels / make_divisible (utils.arch_utils) and *)
(* EfficientNet._round_channel.                                            *)

\* the multiple of the divisor nearest to a rational v >= 0 (a tie goes up)
NearestDivisible(v, divisor) ==
    (((2 * v.n + divisor * v.d) \div (2 * v.d)) \div divisor) * divisor

\* the nearest multiple alone, without the round-up that keeps 90% of v
make_divisible_nearest(v, divisor, min_value) ==
    Max(IF min_value = 0 THEN divisor ELSE min_value, NearestDivisible(v, divisor))

\* make_divisible(v, divisor, min_value) for a rational v >= 0: v rounded to
\* the nearest multiple of the divisor; the next multiple up when the nearest
\* one is more than 10% below v; and never below min_value, whose default is
\* the divisor (min_value 0 stands for None)
make_divisible(v, divisor, min_value) ==
    LET mv == IF min_value = 0 THEN divisor ELSE min_value
        nearest == NearestDivisible(v, divisor)
        kept == IF nearest * 10 * v.d < 9 * v.n THEN nearest + divisor ELSE nearest
    IN  Max(mv, kept)

round_channels(channels, multiplier, divisor, channel_min) ==
    IF multiplier.n = 0 THEN channels
    ELSE make_divisible(Frac(channels * multiplier.n, multiplier.d), divisor, channel_min)

round_channel_depth(arch_params, global_params, channel) ==
    round_channels(channel, arch_params[2], global_params.channel_divisor,
                   global_params.channel_min)

\* EfficientNet._round_channel; arch_params is (channel_multiplier,
\* depth_multiplier, resolution, dropout_rate), numbered from 1 here
round_channel(arch_params, global_params, channel) ==
    round_channels(channel, arch_params[1], global_params.channel_divisor,
                   global_params.channel_min)

----------------------------------------------------------------------------
(* Padding resolver: get_padding, create_conv2d, get_same_padding,         *)
(* pad_same, conv2d_same, Conv2dSame.  A padding argument is               *)
(* [kind |-> "str", v |-> <string>] or [kind |-> "num", v |-> <integer>].  *)

StrPad(s) == [kind |-> "str", v |-> s]

NumPad(n) == [kind |-> "num", v |-> n]

\* str.lower() on the padding strings that are enumerated
Lower(s) ==
    CASE s = "SAME" -> "same"
      [] s = "Same" -> "same"
      [] s = "VALID" -> "valid"
      [] OTHER -> s

SymmetricPadding(kernel_size, stride, dilation) ==
    ((stride - 1) + dilation * (kernel_size - 1)) \div 2

get_padding_noparity(padding, kernel_size, stride, dilation) ==
    IF padding.kind = "str"
    THEN LET p == Lower(padding.v)
         IN  IF p = "same"
             THEN IF stride = 1
                  THEN [padding |-> SymmetricPadding(kernel_size, stride, dilation),
                        dynamic |-> FALSE]
                  ELSE [padding |-> 0, dynamic |-> TRUE]
             ELSE IF p = "valid"
             THEN [padding |-> 0, dynamic |-> FALSE]
             ELSE [padding |-> SymmetricPadding(kernel_size, stride, dilation),
                   dynamic |-> FALSE]
    ELSE [padding |-> padding.v, dynamic |-> FALSE]

\* get_padding(padding, kernel_size, stride, dilation) -> (padding, dynamic)
get_padding(padding, kernel_size, stride, dilation) ==
    IF padding.kind = "str"
    THEN LET p == Lower(padding.v)
         IN  IF p = "same"
             THEN IF stride = 1 /\ (dilation * (kernel_size - 1)) % 2 = 0
                  THEN [padding |-> SymmetricPadding(kernel_size, stride, dilation),
                        dynamic |-> FALSE]
                  ELSE [padding |-> 0, dynamic |-> TRUE]
             ELSE IF p = "valid"
             THEN [padding |-> 0, dynamic |-> FALSE]
             ELSE [padding |-> SymmetricPadding(kernel_size, stride, dilation),
                   dynamic |-> FALSE]
    ELSE [padding |-> padding.v, dynamic |-> FALSE]

create_conv2d_static(in_channel, out_channel, kernel_size, stride, dilation, padding, depthwise) ==
    LET gp == get_padding(padding, kernel_size, stride, dilation)
    IN  [cls |-> "Conv2d",
         in_channels |-> in_channel, out_channels |-> out_channel,
         kernel_size |-> kernel_size, stride |-> stride,
         padding |-> gp.padding,
         dilation |-> dilation,
         groups |-> IF depthwise THEN in_channel ELSE 1]

\* create_conv2d: Conv2dSame (whose __init__ forces padding 0) when the
\* padding is dynamic, nn.Conv2d otherwise
create_conv2d(in_channel, out_channel, kernel_size, stride, dilation, padding, depthwise) ==
    LET gp == get_padding(padding, kernel_size, stride, dilation)
    IN  [cls |-> IF gp.dynamic THEN "Conv2dSame" ELSE "Conv2d",
         in_channels |-> in_channel, out_channels |-> out_channel,
         kernel_size |-> kernel_size, stride |-> stride,
         padding |-> IF gp.dynamic THEN 0 ELSE gp.padding,
         dilation |-> dilation,
         groups |-> IF depthwise THEN in_channel ELSE 1]

get_same_padding_floor(x, k, s, d) ==
    Max(((x \div s) - 1) * s + (k - 1) * d + 1 - x, 0)

\* get_same_padding(x, k, s, d)
get_same_padding(x, k, s, d) ==
    Max((Ceil(x, s) - 1) * s + (k - 1) * d + 1 - x, 0)

pad_same_leading_heavy(x, k, s, d) ==
    LET pad_h == get_same_padding(x[1], k[1], s[1], d[1])
        pad_w == get_same_padding(x[2], k[2], s[2], d[2])
    IN  IF pad_h > 0 \/ pad_w > 0
        THEN [pads |-> <<pad_w - pad_w \div 2, pad_w \div 2,
                         pad_h - pad_h \div 2, pad_h \div 2>>,
              shape |-> <<x[1] + pad_h, x[2] + pad_w>>]
        ELSE [pads |-> <<0, 0, 0, 0>>, shape |-> x]

\* pad_same on a tensor of spatial shape x = <<ih, iw>>: the F.pad argument
\* [left, right, top, bottom] (zeros when F.pad is not called) and the
\* spatial shape of the result
pad_same(x, k, s, d) ==
    LET pad_h == get_same_padding(x[1], k[1], s[1], d[1])
        pad_w == get_same_padding(x[2], k[2], s[2], d[2])
    IN  IF pad_h > 0 \/ pad_w > 0
        THEN [pads |-> <<pad_w \div 2, pad_w - pad_w \div 2,
                         pad_h \div 2, pad_h - pad_h \div 2>>,
              shape |-> <<x[1] + pad_h, x[2] + pad_w>>]
        ELSE [pads |-> <<0, 0, 0, 0>>, shape |-> x]

ConvOutSize_nostride(in, k, s, p, d) == (in + 2 * p - d * (k - 1) - 1) + 1

\* spatial size of F.conv2d / nn.Conv2d output along one axis, for a
\* symmetric padding p on each side
ConvOutSize(in, k, s, p, d) == ((in + 2 * p - d * (k - 1) - 1) \div s) + 1

\* conv2d_same: pad_same, then F.conv2d with padding (0, 0)
conv2d_same(x, k, s, d) ==
    LET padded == pad_same(x, k, s, d)
    IN  [pads |-> padded.pads,
         shape |-> <<ConvOutSize(padded.shape[1], k[1], s[1], 0, d[1]),
                     ConvOutSize(padded.shape[2], k[2], s[2], 0, d[2])>>]

\* forward of a convolution made by create_conv2d on spatial shape x
ConvForward(conv, x) ==
    LET k == <<conv.kernel_size, conv.kernel_size>>
        s == <<conv.stride, conv.stride>>
        d == <<conv.dilation, conv.dilation>>
    IN  IF conv.cls = "Conv2dSame"
        THEN conv2d_same(x, k, s, d)
        ELSE [pads |-> <<conv.padding, conv.padding, conv.padding, conv.padding>>,
              shape |-> <<ConvOutSize(x[1], k[1], s[1], conv.padding, d[1]),
                          ConvOutSize(x[2], k[2], s[2], conv.padding, d[2])>>]

----------------------------------------------------------------------------
(* Block library: SqueezeExcite, DepthwiseSeparableConv,                   *)
(* InvertedResidualBlock, EdgeResidual.  A constructor takes the keyword   *)
(* arguments as a function kw (a dict) and returns the module as a record, *)
(* or [error |-> ..] where Python raises.  A tensor is its shape           *)
(* [c |-> channels, hw |-> <<height, width>>].                             *)

Get(kw, key, default) == IF key \in DOMAIN kw THEN kw[key] ELSE default

\* keyword parameters accepted by DepthwiseSeparableConv.__init__ and
\* InvertedResidualBlock.__init__
BlockParams ==
    {"in_channel", "out_channel", "kernel_size", "stride", "se_ratio", "pad_type",
     "act_layer", "noskip", "exp_ratio", "drop_path_rate", "norm_kwargs"}

\* keyword parameters accepted by EdgeResidual.__init__
EdgeParams == BlockParams \cup {"mid_channel"}

DefaultDivisor == 8

\* make_divisible(n * ratio) with the default divisor and no min_value
MidChannels(n, ratio) == make_divisible(Frac(n * ratio.n, ratio.d), DefaultDivisor, 0)

\* has_se = se_ratio is not None and se_ratio > 0
HasSE(se_ratio) == se_ratio.n > 0

\* SqueezeExcite(in_channel, se_ratio, reduced_base_chs): divisor defaults to 1
SqueezeExcite(in_channel, se_ratio, reduced_base_chs) ==
    LET base == IF reduced_base_chs # 0 THEN reduced_base_chs ELSE in_channel
        reduced_chs == make_divisible(Frac(base * se_ratio.n, se_ratio.d), 1, 0)
    IN  [cls |-> "SqueezeExcite", in_channel |-> in_channel, reduced_chs |-> reduced_chs]

Identity == [cls |-> "Identity"]

\* self.drop_path: DropPath(drop_path_rate) if drop_path_rate > 0 else nn.Identity()
MakeDropPath(drop_path_rate) ==
    IF drop_path_rate.n > 0
    THEN [cls |-> "DropPath", drop_prob |-> drop_path_rate]
    ELSE Identity

HasResidual_ignoring_noskip(in_channel, out_channel, stride, noskip) ==
    stride = 1 /\ in_channel = out_channel

\* self.has_residual = (stride == 1 and in_channel == out_channel) and not noskip
HasResidual(in_channel, out_channel, stride, noskip) ==
    (stride = 1 /\ in_channel = out_channel) /\ ~noskip

\* the fields the three constructors set alike
BlockCommon(cls, kw) ==
    LET in_channel == kw["in_channel"]
        out_channel == kw["out_channel"]
        stride == Get(kw, "stride", 1)
        se_ratio == Get(kw, "se_ratio", Frac(0, 1))
        drop_path_rate == Get(kw, "drop_path_rate", Frac(0, 1))
    IN  [cls |-> cls,
         in_channel |-> in_channel,
         out_channel |-> out_channel,
         kernel_size |-> Get(kw, "kernel_size", 3),
         stride |-> stride,
         has_se |-> HasSE(se_ratio),
         has_residual |-> HasResidual(in_channel, out_channel, stride,
                                      Get(kw, "noskip", FALSE)),
         drop_path_rate |-> drop_path_rate,
         drop_path |-> MakeDropPath(drop_path_rate)]

DepthwiseSeparableConv(kw) ==
    IF ~(DOMAIN kw \subseteq BlockParams) THEN [error |-> "TypeError"]
    ELSE IF {"in_channel", "out_channel"} \ DOMAIN kw # {} THEN [error |-> "TypeError"]
    ELSE IF Get(kw, "kernel_size", 3) \notin {3, 5} THEN [error |-> "AssertionError"]
    ELSE
    LET c == BlockCommon("DepthwiseSeparableConv", kw)
        pad_type == Get(kw, "pad_type", StrPad(""))
    IN  [common |-> c,
         convs |-> [conv_dw |-> create_conv2d(c.in_channel, c.in_channel, c.kernel_size,
                                              c.stride, 1, pad_type, TRUE),
                    conv_pw |-> create_conv2d(c.in_channel, c.out_channel, 1,
                                              1, 1, pad_type, FALSE)],
         se |-> IF c.has_se
                THEN SqueezeExcite(c.in_channel, kw["se_ratio"], c.in_channel)
                ELSE Identity,
         order |-> <<"conv_dw", "bn1", "act1", "se", "conv_pw", "bn2">>]

InvertedResidualBlock(kw) ==
    IF ~(DOMAIN kw \subseteq BlockParams) THEN [error |-> "TypeError"]
    ELSE IF {"in_channel", "out_channel"} \ DOMAIN kw # {} THEN [error |-> "TypeError"]
    ELSE IF Get(kw, "kernel_size", 3) \notin {3, 5} THEN [error |-> "AssertionError"]
    ELSE
    LET c == BlockCommon("InvertedResidualBlock", kw)
        pad_type == Get(kw, "pad_type", StrPad(""))
        mid_chs == MidChannels(c.in_channel, Get(kw, "exp_ratio", Frac(1, 1)))
    IN  [common |-> c,
         convs |-> [conv_pw |-> create_conv2d(c.in_channel, mid_chs, 1,
                                              1, 1, pad_type, FALSE),
                    conv_dw |-> create_conv2d(mid_chs, mid_chs, c.kernel_size,
                                              c.stride, 1, pad_type, TRUE),
                    conv_pwl |-> create_conv2d(mid_chs, c.out_channel, 1,
                                               1, 1, pad_type, FALSE)],
         se |-> IF c.has_se
                THEN SqueezeExcite(mid_chs, kw["se_ratio"], c.in_channel)
                ELSE Identity,
         order |-> <<"conv_pw", "bn1", "act1", "conv_dw", "bn2", "act2", "se",
                     "conv_pwl", "bn3">>]

EdgeResidual(kw) ==
    IF ~(DOMAIN kw \subseteq EdgeParams) THEN [error |-> "TypeError"]
    ELSE IF {"in_channel", "out_channel"} \ DOMAIN kw # {} THEN [error |-> "TypeError"]
    ELSE IF Get(kw, "kernel_size", 3) \notin {3, 5} THEN [error |-> "AssertionError"]
    ELSE
    LET c == BlockCommon("EdgeResidual", kw)
        pad_type == Get(kw, "pad_type", StrPad(""))
        exp_ratio == Get(kw, "exp_ratio", Frac(1, 1))
        mid_channel == IF Get(kw, "mid_channel", 0) > 0
                       THEN MidChannels(kw["mid_channel"], exp_ratio)
                       ELSE MidChannels(c.in_channel, exp_ratio)
    IN  [common |-> c,
         convs |-> [conv_exp |-> create_conv2d(c.in_channel, mid_channel, c.kernel_size,
                                               1, 1, pad_type, FALSE),
                    conv_pwl |-> create_conv2d(mid_channel, c.out_channel, 1,
                                               c.stride, 1, pad_type, FALSE)],
         se |-> IF c.has_se
                THEN SqueezeExcite(mid_channel, kw["se_ratio"], c.in_channel)
                ELSE Identity,
         order |-> <<"conv_exp", "bn1", "act1", "se", "conv_pwl", "bn2">>]

IsError(v) == "error" \in DOMAIN v

BlockClasses == {"ds", "ir", "er"}

\* block_map[block_type](**layer_args)
MakeBlock(block_type, kw) ==
    CASE block_type = "ds" -> DepthwiseSeparableConv(kw)
      [] block_type = "ir" -> InvertedResidualBlock(kw)
      [] block_type = "er" -> EdgeResidual(kw)

\* one sub-module applied to a tensor: a convolution changes the shape (and
\* rejects a tensor with the wrong channel count or too small for its
\* kernel), every other sub-module keeps it
ApplyLayer(block, name, x) ==
    IF name \in DOMAIN block.convs
    THEN LET conv == block.convs[name]
             out == ConvForward(conv, x.hw).shape
         IN  IF x.c # conv.in_channels \/ out[1] < 1 \/ out[2] < 1
             THEN [error |-> "RuntimeError"]
             ELSE [c |-> conv.out_channels, hw |-> out]
    ELSE x

RECURSIVE ApplyLayers(_, _, _)
\* the body of forward() before the residual: the branch output
ApplyLayers(block, i, x) ==
    IF i = 0 THEN x
    ELSE LET y == ApplyLayers(block, i - 1, x)
         IN  IF IsError(y) THEN y ELSE ApplyLayer(block, block.order[i], y)

\* forward(x) of a block: the sub-modules called, in order, and the shape of
\* the result.  When has_residual, self.drop_path is called on the branch
\* output and the input is then added (x += residual needs equal shapes).
BlockForward(block, x) ==
    LET y == ApplyLayers(block, Len(block.order), x)
    IN  IF IsError(y) THEN y
        ELSE IF block.common.has_residual
        THEN IF y # x THEN [error |-> "RuntimeError"]
             ELSE [ops |-> block.order \o <<"drop_path", "add">>, out |-> y]
        ELSE [ops |-> block.order, out |-> y]

----------------------------------------------------------------------------
(* Block-string decoder: EfficientNet._decode_str_def.  A stage string is  *)
(* a sequence of one-character strings.                                    *)

Digits == {"0", "1", "2", "3", "4", "5", "6", "7", "8", "9"}

DigitValue(ch) ==
    CASE ch = "0" -> 0 [] ch = "1" -> 1 [] ch = "2" -> 2 [] ch = "3" -> 3
      [] ch = "4" -> 4 [] ch = "5" -> 5 [] ch = "6" -> 6 [] ch = "7" -> 7
      [] ch = "8" -> 8 [] ch = "9" -> 9

RECURSIVE Split(_, _)
\* str.split(sep) for a one-character separator
Split(str, sep) ==
    IF \A i \in 1..Len(str) : str[i] # sep THEN <<str>>
    ELSE LET i == CHOOSE j \in 1..Len(str) :
                      str[j] = sep /\ \A h \in 1..(j - 1) : str[h] # sep
         IN  <<SubSeq(str, 1, i - 1)>> \o Split(SubSeq(str, i + 1, Len(str)), sep)

\* re.split(r'(\d.*)', op): the text before the first digit, the text from
\* the first digit on, and an empty string; or the whole op when it holds no
\* digit
RegexSplit(op) ==
    IF \A i \in 1..Len(op) : op[i] \notin Digits THEN <<op>>
    ELSE LET i == CHOOSE j \in 1..Len(op) :
                      op[j] \in Digits /\ \A h \in 1..(j - 1) : op[h] \notin Digits
         IN  <<SubSeq(op, 1, i - 1), SubSeq(op, i, Len(op)), <<>>>>

RECURSIVE DigitsValue(_)
DigitsValue(str) ==
    IF str = <<>> THEN 0
    ELSE 10 * DigitsValue(SubSeq(str, 1, Len(str) - 1)) + DigitValue(str[Len(str)])

RECURSIVE Pow10(_)
Pow10(n) == IF n = 0 THEN 1 ELSE 10 * Pow10(n - 1)

\* int(str): [value |-> n] for a non-empty run of digits, ValueError otherwise
ParseInt(str) ==
    IF str # <<>> /\ \A i \in 1..Len(str) : str[i] \in Digits
    THEN [value |-> DigitsValue(str)]
    ELSE [error |-> "ValueError"]

\* float(str): [value |-> the exact fraction] for digits with at most one
\* '.', ValueError otherwise
ParseFloat(str) ==
    LET dots == {i \in 1..Len(str) : str[i] = "."}
    IN  IF \E i \in 1..Len(str) : str[i] \notin Digits \cup {"."}
        THEN [error |-> "ValueError"]
        ELSE IF dots = {} THEN [value |-> Frac(DigitsValue(str), 1)]
        ELSE IF Cardinality(dots) > 1 \/ Len(str) = 1 THEN [error |-> "ValueError"]
        ELSE LET i == CHOOSE j \in dots : TRUE
                 whole == SubSeq(str, 1, i - 1)
                 frac == SubSeq(str, i + 1, Len(str))
             IN  [value |-> Frac(DigitsValue(whole) * Pow10(Len(frac)) + DigitsValue(frac),
                                 Pow10(Len(frac)))]

\* args_map: the argument name of a key, "" when the key is not in the map
ArgName(key) ==
    CASE key = <<"r">> -> "repeat"
      [] key = <<"k">> -> "kernel_size"
      [] key = <<"s">> -> "stride"
      [] key = <<"e">> -> "exp_ratio"
      [] key = <<"m">> -> "mid_channel"
      [] key = <<"c">> -> "out_channel"
      [] key = <<"s", "e">> -> "se_ratio"
      [] OTHER -> ""

\* args_map: the cast of an argument
Cast(name, str) ==
    IF name \in {"exp_ratio", "se_ratio"} THEN ParseFloat(str) ELSE ParseInt(str)

NoSkip == <<"n", "o", "s", "k", "i", "p">>

RECURSIVE DecodeOps(_, _)
\* the loop over stage_data[1:], from dict a: the dict after the loop, or
\* the exception an op raises
DecodeOps(ops, a) ==
    IF ops = <<>> THEN a
    ELSE LET op == Head(ops)
         IN  IF op = NoSkip
             THEN DecodeOps(Tail(ops), ("noskip" :> TRUE) @@ a)
             ELSE LET sp == RegexSplit(op)
                  IN  IF Len(sp) < 2 THEN [error |-> "AssertionError"]
                      ELSE IF ArgName(sp[1]) = "" THEN [error |-> "KeyError"]
                      ELSE LET v == Cast(ArgName(sp[1]), sp[2])
                           IN  IF IsError(v) THEN v
                               ELSE DecodeOps(Tail(ops), (ArgName(sp[1]) :> v.value) @@ a)

\* the dict built from the tokens of a stage string, before 'repeat' is
\* asserted
DecodeTokens(stage_str) ==
    LET stage_data == Split(stage_str, "_")
    IN  DecodeOps(Tail(stage_data),
                  [block_type |-> stage_data[1], noskip |-> FALSE])

decode_str_def_default_repeat(stage_str) ==
    LET a == DecodeTokens(stage_str)
    IN  IF IsError(a) \/ "repeat" \in DOMAIN a THEN a
        ELSE ("repeat" :> 1) @@ a

\* EfficientNet._decode_str_def
decode_str_def(stage_str) ==
    LET a == DecodeTokens(stage_str)
    IN  IF IsError(a) THEN a
        ELSE IF "repeat" \notin DOMAIN a THEN [error |-> "AssertionError"]
        ELSE a

\* dict without a key (after pop)
Remove(dict, key) == [k \in DOMAIN dict \ {key} |-> dict[k]]

\* block_map
BlockMap == {<<"d", "s">>, <<"i", "r">>, <<"e", "r">>}

BlockTypeName(block_type) ==
    CASE block_type = <<"d", "s">> -> "ds"
      [] block_type = <<"i", "r">> -> "ir"
      [] block_type = <<"e", "r">> -> "er"

----------------------------------------------------------------------------
(* Input sets.                                                             *)

\* depth multipliers 0.25, 0.5, ..., MaxDepthQuarters / 4
DepthMultipliers == {Frac(q, 4) : q \in 1..MaxDepthQuarters}

\* channel multipliers 0.5, 0.75, ..., 2.0
ChannelMultipliers == {Frac(q, 4) : q \in 2..8}

ChannelDivisors == {1, 4, 8}

\* global_params['channel_min']; 0 stands for None
ChannelMins == {0, 1, 8, 12, 16}

PaddingStrings == {"same", "SAME", "valid", "VALID", "", "zeros"}

PaddingNumbers == {0, 1, 2}

BuildIdle ==
    /\ self = <<>>
    /\ blocks_args = <<>>
    /\ stage_args = <<>>
    /\ repeats = <<>>
    /\ idx = <<>>

----------------------------------------------------------------------------
(* Network assembler: EfficientNet.__init__, _decode_block_def,            *)
(* _make_blocks, _make_layer.                                              *)

MaxStages == 3

\* 'ds_r1_k3_s1_e1_c16_se0.25'
Str_ds_r1 ==
    <<"d", "s", "_", "r", "1", "_", "k", "3", "_", "s", "1", "_", "e", "1", "_", "c", "1", "6", "_", "s", "e", "0", ".", "2", "5">>

\* 'ir_r2_k3_s2_e6_c24_se0.25'
Str_ir_r2 ==
    <<"i", "r", "_", "r", "2", "_", "k", "3", "_", "s", "2", "_", "e", "6", "_", "c", "2", "4", "_", "s", "e", "0", ".", "2", "5">>

\* 'ir_r2_k5_s1_e6_c40'
Str_ir_r2_c40 ==
    <<"i", "r", "_", "r", "2", "_", "k", "5", "_", "s", "1", "_", "e", "6", "_", "c", "4", "0">>

\* 'ir_r1_k3_s2_e6_c80'
Str_ir_r1_c80 ==
    <<"i", "r", "_", "r", "1", "_", "k", "3", "_", "s", "2", "_", "e", "6", "_", "c", "8", "0">>

\* 'er_r2_k3_s2_e4_c24_m24_noskip'
Str_er_r2 ==
    <<"e", "r", "_", "r", "2", "_", "k", "3", "_", "s", "2", "_", "e", "4", "_", "c", "2", "4", "_", "m", "2", "4", "_", "n", "o", "s", "k", "i", "p">>

\* 'ir_k3_s2_e6_c24'
Str_no_repeat ==
    <<"i", "r", "_", "k", "3", "_", "s", "2", "_", "e", "6", "_", "c", "2", "4">>

\* 'ir_r2_k3_s2_x6_c24'
Str_unknown_key ==
    <<"i", "r", "_", "r", "2", "_", "k", "3", "_", "s", "2", "_", "x", "6", "_", "c", "2", "4">>

\* 'xx_r1_k3_s1_e1_c16'
Str_unknown_type ==
    <<"x", "x", "_", "r", "1", "_", "k", "3", "_", "s", "1", "_", "e", "1", "_", "c", "1", "6">>


\* the stages (lists of stage strings) block tables are made of
StagePool ==
    { <<Str_ds_r1>>, <<Str_ir_r2>>, <<Str_ir_r2_c40, Str_ir_r1_c80>>, <<Str_er_r2>>,
      <<Str_no_repeat>>, <<Str_unknown_key>>, <<Str_unknown_type>> }

\* depth multipliers of the networks that are built: 0.5, 1.0, 1.5
BuildDepthMultipliers == {Frac(2, 4), Frac(4, 4), Frac(6, 4)}

\* global_params of _efficientnet / _efficientnet_edge / _efficientnet_lite
GlobalParams ==
    [channel_divisor |-> 8,
     channel_min |-> 0,
     drop_path_rate |-> Frac(2, 10),
     act_layer |-> "act_layer",
     pad_type |-> StrPad("same"),
     norm_kwargs |-> "norm_kwargs"]

\* not (fix_first_last and (idx == 0 or idx == len(block_def)-1)), negated;
\* stages are numbered from 1 here
Exempt(fix_first_last, i, n) == fix_first_last /\ (i = 1 \/ i = n)

DropRate_next_layer(global_params, layer_idx, total_layers) ==
    Frac(global_params.drop_path_rate.n * (layer_idx + 1),
         global_params.drop_path_rate.d * total_layers)

\* drop_rate = global_params['drop_path_rate'] * layer_idx / total_layers
DropRate(global_params, layer_idx, total_layers) ==
    Frac(global_params.drop_path_rate.n * layer_idx,
         global_params.drop_path_rate.d * total_layers)

LayerKwargs_stem_in(obj, arch_params, global_params, layer_args) ==
    IF "out_channel" \notin DOMAIN layer_args THEN [error |-> "KeyError"]
    ELSE
    LET base == [in_channel |-> obj.out_channels[1],
                 out_channel |-> round_channel(arch_params, global_params,
                                               layer_args["out_channel"]),
                 drop_path_rate |-> DropRate(global_params, obj.layer_idx,
                                             obj.total_layers),
                 pad_type |-> global_params.pad_type,
                 norm_kwargs |-> global_params.norm_kwargs,
                 act_layer |-> global_params.act_layer]
        mid == IF "mid_channel" \in DOMAIN layer_args
               THEN [mid_channel |-> round_channel(arch_params, global_params,
                                                   layer_args["mid_channel"])]
               ELSE <<>>
    IN  mid @@ base @@ Remove(layer_args, "block_type")

\* _make_layer: the keyword arguments handed to the block class, i.e.
\* layer_args after its updates and the pop of block_type, or KeyError
LayerKwargs(obj, arch_params, global_params, layer_args) ==
    IF "out_channel" \notin DOMAIN layer_args THEN [error |-> "KeyError"]
    ELSE
    LET base == [in_channel |-> obj.in_channel,
                 out_channel |-> round_channel(arch_params, global_params,
                                               layer_args["out_channel"]),
                 drop_path_rate |-> DropRate(global_params, obj.layer_idx,
                                             obj.total_layers),
                 pad_type |-> global_params.pad_type,
                 norm_kwargs |-> global_params.norm_kwargs,
                 act_layer |-> global_params.act_layer]
        mid == IF "mid_channel" \in DOMAIN layer_args
               THEN [mid_channel |-> round_channel(arch_params, global_params,
                                                   layer_args["mid_channel"])]
               ELSE <<>>
    IN  mid @@ base @@ Remove(layer_args, "block_type")

\* _make_layer: the layer, or the exception raised
make_layer(obj, arch_params, global_params, layer_args) ==
    LET kw == LayerKwargs(obj, arch_params, global_params, layer_args)
    IN  IF IsError(kw) THEN kw
        ELSE IF layer_args["block_type"] \notin BlockMap THEN [error |-> "KeyError"]
        ELSE MakeBlock(BlockTypeName(layer_args["block_type"]), kw)

InitBuild ==
    /\ pc = "start"
    /\ \E n \in 1..MaxStages :
         \E tbl \in [1..n -> StagePool] :
           \E dm \in BuildDepthMultipliers, fx \in BOOLEAN :
             args = [block_def |-> tbl,
                     arch_params |-> <<Frac(1, 1), dm, 224, Frac(1, 5)>>,
                     global_params |-> GlobalParams,
                     num_classes |-> 1000,
                     in_channel |-> 3,
                     stem_size |-> 32,
                     fix_stem |-> FALSE,
                     num_features |-> 0,
                     fix_block_first_last |-> fx]
    /\ ret = <<>>
    /\ BuildIdle

\* __init__ up to self.out_channels = [stem_size]
BuildStem ==
    /\ pc = "start"
    /\ LET stem_size == IF args.fix_stem THEN args.stem_size
                        ELSE round_channel(args.arch_params, args.global_params,
                                           args.stem_size)
       IN  self' = [in_channel |-> args.in_channel,
                    num_features |->
                        IF args.num_features = 0
                        THEN round_channel(args.arch_params, args.global_params, 1280)
                        ELSE args.num_features,
                    conv_stem |-> create_conv2d(args.in_channel, stem_size, 3, 2, 1,
                                                args.global_params.pad_type, FALSE),
                    bn1 |-> [cls |-> "BatchNorm2d", num_features |-> stem_size],
                    act1 |-> [cls |-> args.global_params.act_layer],
                    out_channels |-> <<stem_size>>]
    /\ idx' = [stage |-> 1, layer |-> 0]
    /\ pc' = IF Len(args.block_def) = 0 THEN "make_blocks" ELSE "decode"
    /\ UNCHANGED <<args, ret, blocks_args, stage_args, repeats>>

\* _decode_block_def, one stage: the stage strings are decoded and their
\* 'repeat' popped
DecodeStage ==
    /\ pc = "decode"
    /\ LET strs == args.block_def[idx.stage]
           dec == [j \in 1..Len(strs) |-> decode_str_def(strs[j])]
           bad == {j \in 1..Len(strs) : IsError(dec[j])}
       IN  IF bad # {}
           THEN /\ pc' = "error"
                /\ ret' = dec[CHOOSE j \in bad : \A h \in bad : j <= h]
                /\ UNCHANGED <<stage_args, repeats>>
           ELSE /\ pc' = "scale"
                /\ repeats' = [j \in 1..Len(strs) |-> dec[j]["repeat"]]
                /\ stage_args' = [j \in 1..Len(strs) |-> Remove(dec[j], "repeat")]
                /\ ret' = ret
    /\ UNCHANGED <<args, self, blocks_args, idx>>

ScaleStage_then_blocks ==
    /\ pc = "scale"
    /\ LET n == Len(args.block_def)
           scaled == IF Exempt(args.fix_block_first_last, idx.stage, n)
                     THEN stage_args
                     ELSE scale_stage_depth(stage_args, repeats, args.arch_params[2])
       IN  /\ stage_args' = scaled
           /\ blocks_args' = Append(blocks_args, scaled)
           /\ idx' = [idx EXCEPT !.stage = idx.stage + 1]
           /\ pc' = "make_blocks"
    /\ UNCHANGED <<args, ret, self, repeats>>

\* _decode_block_def, one stage: the stage is depth-scaled unless exempt,
\* and appended to blocks_args
ScaleStage ==
    /\ pc = "scale"
    /\ LET n == Len(args.block_def)
           scaled == IF Exempt(args.fix_block_first_last, idx.stage, n)
                     THEN stage_args
                     ELSE scale_stage_depth(stage_args, repeats, args.arch_params[2])
       IN  /\ stage_args' = scaled
           /\ blocks_args' = Append(blocks_args, scaled)
           /\ idx' = [idx EXCEPT !.stage = idx.stage + 1]
           /\ pc' = IF idx.stage < n THEN "decode" ELSE "make_blocks"
    /\ UNCHANGED <<args, ret, self, repeats>>

\* _make_blocks after _decode_block_def returned, up to the loop
MakeBlocksBegin ==
    /\ pc = "make_blocks"
    /\ self' = (IF blocks_args = <<>> THEN [blocks |-> <<>>] ELSE <<>>)
                @@ [in_channel |-> self.out_channels[1],
                    total_layers |-> Sum([i \in 1..Len(blocks_args) |-> Len(blocks_args[i])]),
                    layer_idx |-> 0]
                @@ self
    /\ ret' = [blocks |-> <<>>, stage |-> <<>>]
    /\ idx' = [stage |-> 1, layer |-> 1]
    /\ stage_args' = IF blocks_args = <<>> THEN <<>> ELSE blocks_args[1]
    /\ pc' = IF blocks_args = <<>> THEN "head" ELSE "make_layer"
    /\ UNCHANGED <<args, blocks_args, repeats>>

MakeLayer_keep_stride ==
    /\ pc = "make_layer"
    /\ LET a == stage_args[idx.layer]
       IN  IF "stride" \notin DOMAIN a
           THEN /\ pc' = "error"
                /\ ret' = [error |-> "KeyError"]
                /\ UNCHANGED <<self, stage_args, idx>>
           ELSE IF a["stride"] \notin {1, 2}
           THEN /\ pc' = "error"
                /\ ret' = [error |-> "AssertionError"]
                /\ UNCHANGED <<self, stage_args, idx>>
           ELSE
           LET layer_args == a
               layer == make_layer(self, args.arch_params, args.global_params, layer_args)
           IN  IF IsError(layer)
               THEN /\ pc' = "error"
                    /\ ret' = layer
                    /\ UNCHANGED <<self, stage_args, idx>>
               ELSE
               LET stage == Append(ret.stage, layer)
                   last == idx.layer = Len(stage_args)
                   more == idx.stage < Len(blocks_args)
                   blocks == IF last THEN Append(ret.blocks, stage) ELSE ret.blocks
                   obj == [in_channel |-> layer.common.out_channel,
                           layer_idx |-> self.layer_idx + 1] @@ self
               IN  /\ ret' = [blocks |-> blocks,
                              stage |-> IF last THEN <<>> ELSE stage]
                   /\ self' = IF ~last THEN obj
                              ELSE IF more
                              THEN [out_channels |->
                                        Append(obj.out_channels, obj.in_channel)] @@ obj
                              ELSE [out_channels |->
                                        Append(obj.out_channels, obj.in_channel),
                                    blocks |-> blocks] @@ obj
                   /\ idx' = IF last THEN [stage |-> idx.stage + 1, layer |-> 1]
                             ELSE [idx EXCEPT !.layer = idx.layer + 1]
                   /\ stage_args' = IF last /\ more THEN blocks_args[idx.stage + 1]
                                    ELSE stage_args
                   /\ pc' = IF last /\ ~more THEN "head" ELSE "make_layer"
    /\ UNCHANGED <<args, blocks_args, repeats>>

\* _make_blocks, one pass of the inner loop with its _make_layer call; after
\* the last layer of a stage the stage is appended to blocks and the running
\* channel count to self.out_channels
MakeLayer ==
    /\ pc = "make_layer"
    /\ LET a == stage_args[idx.layer]
       IN  IF "stride" \notin DOMAIN a
           THEN /\ pc' = "error"
                /\ ret' = [error |-> "KeyError"]
                /\ UNCHANGED <<self, stage_args, idx>>
           ELSE IF a["stride"] \notin {1, 2}
           THEN /\ pc' = "error"
                /\ ret' = [error |-> "AssertionError"]
                /\ UNCHANGED <<self, stage_args, idx>>
           ELSE
           LET layer_args == IF idx.layer > 1 THEN ("stride" :> 1) @@ a ELSE a
               layer == make_layer(self, args.arch_params, args.global_params, layer_args)
           IN  IF IsError(layer)
               THEN /\ pc' = "error"
                    /\ ret' = layer
                    /\ UNCHANGED <<self, stage_args, idx>>
               ELSE
               LET stage == Append(ret.stage, layer)
                   last == idx.layer = Len(stage_args)
                   more == idx.stage < Len(blocks_args)
                   blocks == IF last THEN Append(ret.blocks, stage) ELSE ret.blocks
                   obj == [in_channel |-> layer.common.out_channel,
                           layer_idx |-> self.layer_idx + 1] @@ self
               IN  /\ ret' = [blocks |-> blocks,
                              stage |-> IF last THEN <<>> ELSE stage]
                   /\ self' = IF ~last THEN obj
                              ELSE IF more
                              THEN [out_channels |->
                                        Append(obj.out_channels, obj.in_channel)] @@ obj
                              ELSE [out_channels |->
                                        Append(obj.out_channels, obj.in_channel),
                                    blocks |-> blocks] @@ obj
                   /\ idx' = IF last THEN [stage |-> idx.stage + 1, layer |-> 1]
                             ELSE [idx EXCEPT !.layer = idx.layer + 1]
                   /\ stage_args' = IF last /\ more THEN blocks_args[idx.stage + 1]
                                    ELSE stage_args
                   /\ pc' = IF last /\ ~more THEN "head" ELSE "make_layer"
    /\ UNCHANGED <<args, blocks_args, repeats>>

\* __init__ from last_channel = self.in_channel to the end
BuildHead ==
    /\ pc = "head"
    /\ self' = [conv_head |-> create_conv2d(self.in_channel, self.num_features, 1, 1, 1,
                                            args.global_params.pad_type, FALSE),
                bn2 |-> [cls |-> "BatchNorm2d", num_features |-> self.num_features],
                act2 |-> [cls |-> args.global_params.act_layer],
                global_pool |-> [cls |-> "AdaptiveAvgPool2d", output_size |-> 1],
                flatten |-> [cls |-> "Flatten", start_dim |-> 1],
                dropout |-> IF args.arch_params[4].n > 0
                            THEN [cls |-> "Dropout", p |-> args.arch_params[4]]
                            ELSE Identity,
                classifier |-> [cls |-> "Linear", in_features |-> self.num_features,
                                out_features |-> args.num_classes],
                out_channels |-> self.out_channels
                                 \o <<self.num_features, args.num_classes>>] @@ self
    /\ pc' = "ready"
    /\ UNCHANGED <<args, ret, blocks_args, stage_args, repeats, idx>>

Next == BuildStem \/ DecodeStage \/ ScaleStage \/ MakeBlocksBegin \/ MakeLayer \/ BuildHead

Spec == InitBuild /\ [][Next]_vars

----------------------------------------------------------------------------
(* Properties of the network assembler (Spec).                             *)

\* the 'repeat' values written in the stage strings of stage i
StageRepeats(i) ==
    [j \in 1..Len(args.block_def[i]) |-> decode_str_def(args.block_def[i][j])["repeat"]]

\* C3: with fix_block_first_last the first and the last stage are not
\* depth-scaled and every substage of them with repeat r_i yields exactly r_i
\* block instances; every other stage is depth-scaled.
C3_ExemptStagesKeepTheirRepeats ==
    (pc = "ready" /\ args.fix_block_first_last) =>
        \A i \in 1..Len(args.block_def) :
            Len(self.blocks[i]) =
                IF i = 1 \/ i = Len(args.block_def)
                THEN Sum(StageRepeats(i))
                ELSE Sum(RepeatsScaled(StageRepeats(i), args.arch_params[2]))

\* stage strings of the pool with no 'r' token, with a token whose key is not
\* in args_map, and with a block_type that is not ds, ir or er
NoRepeatStrings == {Str_no_repeat}

UnknownKeyStrings == {Str_unknown_key}

UnknownTypeStrings == {Str_unknown_type}

DefectiveTable ==
    \E i \in 1..Len(args.block_def) :
        \E j \in 1..Len(args.block_def[i]) :
            args.block_def[i][j] \in
                NoRepeatStrings \cup UnknownKeyStrings \cup UnknownTypeStrings

\* C6: a block table holding a stage string with no 'r' token, with an
\* unknown key, or with an unknown block_type is rejected: construction ends
\* in an exception, before the head is built, and never yields a network.
C6_DefectiveTableRejected ==
    DefectiveTable =>
        /\ pc \notin {"head", "ready"}
        /\ "conv_head" \notin DOMAIN self
        /\ "blocks" \notin DOMAIN self
        /\ pc = "error" => IsError(ret)

\* an unknown block_type in the second stage is met only in _make_layer,
\* after the first stage's blocks were instantiated
C6_Witness ==
    /\ pc = "error"
    /\ Len(args.block_def) = 2
    /\ args.block_def[1] = <<Str_ir_r2>>
    /\ args.block_def[2] = <<Str_unknown_type>>
    /\ ret = [error |-> "KeyError"]
    /\ idx = [stage |-> 2, layer |-> 1]

\* the block instances of the network in build order
BuiltLayers == Flatten(self.blocks)

\* C17: in every built network the blocks are chained in build order: the
\* first block takes the stem output size as in_channel, every later block
\* the (rounded) out_channel of the block instantiated immediately before
\* it, across substage and stage boundaries; only the first block instance
\* of a stage uses the stride of its stage string, every other block
\* instance of the stage has stride 1; and the head convolution takes the
\* out_channel of the last block.
C17_BlocksChained ==
    pc = "ready" =>
        LET layers == BuiltLayers
        IN  /\ Len(self.blocks) = Len(args.block_def)
            /\ layers[1].common.in_channel = self.out_channels[1]
            /\ layers[1].common.in_channel = self.conv_stem.out_channels
            /\ \A k \in 2..Len(layers) :
                 layers[k].common.in_channel = layers[k - 1].common.out_channel
            /\ \A i \in 1..Len(self.blocks) :
                 /\ self.blocks[i][1].common.stride =
                        decode_str_def(args.block_def[i][1])["stride"]
                 /\ self.blocks[i][1].common.out_channel =
                        round_channel(args.arch_params, args.global_params,
                                      decode_str_def(args.block_def[i][1])["out_channel"])
                 /\ \A j \in 2..Len(self.blocks[i]) :
                      self.blocks[i][j].common.stride = 1
            /\ self.conv_head.in_channels = layers[Len(layers)].common.out_channel

\* two stages, the second made of two stage strings: 32 -> 24 -> .. -> 40
\* -> .. -> 80, and the block of 'ir_r1_k3_s2_e6_c80' gets stride 1
C17_Witness ==
    /\ pc = "ready"
    /\ args.block_def = <<<<Str_ir_r2>>, <<Str_ir_r2_c40, Str_ir_r1_c80>>>>
    /\ self.blocks[1][1].common.in_channel = 32
    /\ self.blocks[2][1].common.in_channel = 24
    /\ LET last == self.blocks[2][Len(self.blocks[2])].common
       IN  last.in_channel = 40 /\ last.out_channel = 80 /\ last.stride = 1
    /\ self.conv_head.in_channels = 80

\* C18 as stated: in every stage of a built network, also in stages made of
\* several stage strings, every block after the first of the stage has
\* in_channel == out_channel and stride 1.
C18_LaterBlocksKeepChannels ==
    pc = "ready" =>
        \A i \in 1..Len(self.blocks) :
            \A j \in 2..Len(self.blocks[i]) :
                /\ self.blocks[i][j].common.in_channel =
                       self.blocks[i][j].common.out_channel
                /\ self.blocks[i][j].common.stride = 1

\* C18, amended: every block after the first of a stage has stride 1 and
\* takes the out_channel of the block before it as in_channel; its
\* out_channel is the rounded c of one of the stage strings of the stage.
\* In a stage made of a single stage string it therefore has in_channel ==
\* out_channel; in a stage of several stage strings the first block
\* instance of a later stage string with another c changes the channel
\* count.
C18_LaterBlocksKeepChannelsOfTheirString ==
    pc = "ready" =>
        \A i \in 1..Len(self.blocks) :
            \A j \in 2..Len(self.blocks[i]) :
                LET b == self.blocks[i][j].common
                    strs == args.block_def[i]
                IN  /\ b.stride = 1
                    /\ b.in_channel = self.blocks[i][j - 1].common.out_channel
                    /\ \E h \in 1..Len(strs) :
                         b.out_channel =
                             round_channel(args.arch_params, args.global_params,
                                           decode_str_def(strs[h])["out_channel"])
                    /\ Len(strs) = 1 => b.in_channel = b.out_channel

\* a stage of two stage strings, c40 then c80: its last block, after the
\* first of the stage, goes from 40 to 80 channels with stride 1
C18_Witness ==
    /\ pc = "ready"
    /\ args.block_def = <<<<Str_ir_r2_c40, Str_ir_r1_c80>>>>
    /\ Len(self.blocks[1]) = 3
    /\ self.blocks[1][2].common.in_channel = 40
    /\ self.blocks[1][2].common.out_channel = 40
    /\ self.blocks[1][3].common.in_channel = 40
    /\ self.blocks[1][3].common.out_channel = 80
    /\ self.blocks[1][3].common.stride = 1

\* a <= b and a = b for fractions with positive denominators
FracLeq(a, b) == a.n * b.d <= b.n * a.d

FracEq(a, b) == a.n * b.d = b.n * a.d

\* C19: the block instantiated k-th in build order (k from 0) receives the
\* drop-path rate drop_path_rate * k / total_layers, total_layers being the
\* number of block instances created (the running layer index equals it
\* when instantiation ends); so the first block gets rate 0, the rates are
\* non-decreasing in build order, and a block gets a DropPath operation only
\* when its rate is > 0.
C19_DropPathRateLinear ==
    pc = "ready" =>
        LET layers == BuiltLayers
            n == Len(layers)
            dpr == args.global_params.drop_path_rate
        IN  /\ self.total_layers = n
            /\ self.layer_idx = n
            /\ \A k \in 1..n :
                 LET c == layers[k].common
                 IN  /\ FracEq(c.drop_path_rate, Frac(dpr.n * (k - 1), dpr.d * n))
                     /\ (c.drop_path.cls = "DropPath") <=> c.drop_path_rate.n > 0
                     /\ c.drop_path.cls = "DropPath" =>
                            c.drop_path.drop_prob = c.drop_path_rate
            /\ layers[1].common.drop_path_rate.n = 0
            /\ layers[1].common.drop_path.cls = "Identity"
            /\ \A k \in 2..n :
                 FracLeq(layers[k - 1].common.drop_path_rate,
                         layers[k].common.drop_path_rate)

\* three blocks with the rates 0, 0.2 * 1/3 and 0.2 * 2/3
C19_Witness ==
    /\ pc = "ready"
    /\ self.total_layers = 3
    /\ Len(BuiltLayers) = 3
    /\ BuiltLayers[1].common.drop_path.cls = "Identity"
    /\ BuiltLayers[2].common.drop_path_rate = [n |-> 2, d |-> 30]
    /\ BuiltLayers[3].common.drop_path_rate = [n |-> 4, d |-> 30]
    /\ BuiltLayers[3].common.drop_path.cls = "DropPath"

\* the phases of the construction, read off the state
StemBuilt == "conv_stem" \in DOMAIN self

\* stage strings decoded so far, in stages
StagesDecoded ==
    CASE pc = "start" -> 0
      [] pc = "decode" -> idx.stage - 1
      [] pc = "scale" -> idx.stage
      [] OTHER -> Len(blocks_args)

\* stages that went through the depth-scaling step of _decode_block_def
StagesScaled == Len(blocks_args)

\* some stage was depth-scaled (an exempt stage is only passed on)
SomeStageDepthScaled ==
    \E i \in 1..Len(blocks_args) :
        ~Exempt(args.fix_block_first_last, i, Len(args.block_def))

BlocksStarted == "total_layers" \in DOMAIN self

BlocksDone == "blocks" \in DOMAIN self

HeadBuilt == "conv_head" \in DOMAIN self

\* the stem exists before any stage string is decoded, every stage is
\* scaled before any block is instantiated, and the head is built only
\* after all blocks are instantiated
PhasesAroundDecoding ==
    /\ pc # "start" => StemBuilt
    /\ StagesDecoded > 0 => StemBuilt
    /\ pc \in {"decode", "scale", "make_blocks"} => ~BlocksStarted /\ ret = <<>>
    /\ BlocksStarted =>
         /\ StagesDecoded = Len(args.block_def)
         /\ StagesScaled = Len(args.block_def)
    /\ pc = "make_layer" => ~BlocksDone /\ ~HeadBuilt
    /\ pc = "head" => BlocksDone /\ ~HeadBuilt
    /\ BlocksDone =>
         /\ Len(self.blocks) = Len(args.block_def)
         /\ self.layer_idx = self.total_layers
    /\ HeadBuilt => BlocksDone /\ pc = "ready"
    /\ pc = "ready" => HeadBuilt

\* C20 as stated: construction passes through stem-built, stages-decoded,
\* stages-scaled, blocks-instantiated, head-built, ready in this order,
\* each phase completing for all stages before the next begins; in
\* particular every stage string is decoded before any stage is
\* depth-scaled.
C20_PhasesInOrder ==
    pc # "error" =>
        /\ PhasesAroundDecoding
        /\ SomeStageDepthScaled => StagesDecoded = Len(args.block_def)

\* C20, amended: decoding and depth-scaling alternate stage by stage (a
\* stage is scaled as soon as its own strings are decoded, before the next
\* stage is decoded); the stem exists before the first stage string is
\* decoded, all stages are decoded and scaled before any block is
\* instantiated, and the head is built only after all blocks are
\* instantiated.
C20_DecodeAndScalePerStage ==
    pc # "error" =>
        /\ PhasesAroundDecoding
        /\ pc = "decode" => StagesScaled = StagesDecoded
        /\ pc = "scale" => StagesScaled = StagesDecoded - 1
        /\ StagesScaled <= StagesDecoded

\* the second of three stages is about to be decoded when the first one has
\* already been depth-scaled from 2 to 3 blocks
C20_Witness ==
    /\ pc = "decode"
    /\ StemBuilt
    /\ Len(args.block_def) = 3
    /\ args.block_def[1] = <<Str_ir_r2>>
    /\ ~args.fix_block_first_last
    /\ idx.stage = 2
    /\ Len(blocks_args) = 1
    /\ Len(blocks_args[1]) = 3

----------------------------------------------------------------------------
(* SpecScale: the depth scaler applied to one stage.  The substages are    *)
(* labelled 1..n, so that ret lists, in order, the substage every block    *)
(* instance of the scaled stage was copied from.                           *)

InitScale ==
    /\ pc = "call"
    /\ \E n \in 1..MaxSubstages :
         \E reps \in [1..n -> 1..MaxRepeat] :
           \E dm \in DepthMultipliers :
             args = [repeats |-> reps, depth_multiplier |-> dm]
    /\ ret = <<>>
    /\ BuildIdle

ScaleStageDepth ==
    /\ pc = "call"
    /\ ret' = scale_stage_depth([i \in 1..Len(args.repeats) |-> i],
                                args.repeats, args.depth_multiplier)
    /\ pc' = "done"
    /\ UNCHANGED <<args, buildVars>>

NextScale == ScaleStageDepth

SpecScale == InitScale /\ [][NextScale]_vars

----------------------------------------------------------------------------
(* SpecRound: EfficientNet._round_channel applied to a channel count, and  *)
(* applied again to its own result.                                        *)

InitRound ==
    /\ pc = "call"
    /\ \E c \in 1..MaxChannel, cm \in ChannelMultipliers,
          dv \in ChannelDivisors, mn \in ChannelMins :
         args = [channel |-> c,
                 arch_params |-> <<cm, Frac(3, 2), 224, Frac(1, 5)>>,
                 global_params |-> [channel_divisor |-> dv, channel_min |-> mn]]
    /\ ret = <<>>
    /\ BuildIdle

RoundChannel ==
    /\ pc = "call"
    /\ ret' = <<round_channel(args.arch_params, args.global_params, args.channel)>>
    /\ pc' = "rounded"
    /\ UNCHANGED <<args, buildVars>>

ReRoundChannel ==
    /\ pc = "rounded"
    /\ ret' = Append(ret, round_channel(args.arch_params, args.global_params, ret[1]))
    /\ pc' = "rerounded"
    /\ UNCHANGED <<args, buildVars>>

NextRound == RoundChannel \/ ReRoundChannel

SpecRound == InitRound /\ [][NextRound]_vars

----------------------------------------------------------------------------
(* SpecPad: a convolution is created by create_conv2d and applied to a     *)
(* tensor of spatial shape args.x.                                         *)

InitPad ==
    /\ pc = "call"
    /\ \E k \in 1..MaxKernel, s \in 1..MaxStride, d \in 1..MaxDilation,
          ih \in 1..MaxIn, iw \in 1..MaxIn :
         \/ \E p \in PaddingStrings :
              args = [padding |-> StrPad(p), kernel_size |-> k, stride |-> s,
                      dilation |-> d, x |-> <<ih, iw>>]
         \/ \E p \in PaddingNumbers :
              args = [padding |-> NumPad(p), kernel_size |-> k, stride |-> s,
                      dilation |-> d, x |-> <<ih, iw>>]
    /\ ret = <<>>
    /\ BuildIdle

CreateConv2d ==
    /\ pc = "call"
    /\ ret' = [gp |-> get_padding(args.padding, args.kernel_size, args.stride,
                                  args.dilation),
               conv |-> create_conv2d(1, 1, args.kernel_size, args.stride,
                                      args.dilation, args.padding, FALSE)]
    /\ pc' = "created"
    /\ UNCHANGED <<args, buildVars>>

\* forward of the convolution; the tensor library rejects an input smaller
\* than the (dilated) kernel
ForwardConv ==
    /\ pc = "created"
    /\ LET fwd == ConvForward(ret.conv, args.x)
       IN  IF fwd.shape[1] < 1 \/ fwd.shape[2] < 1
           THEN /\ pc' = "error"
                /\ ret' = ret
           ELSE /\ pc' = "done"
                /\ ret' = [gp |-> ret.gp, conv |-> ret.conv, fwd |-> fwd]
    /\ UNCHANGED <<args, buildVars>>

NextPad == CreateConv2d \/ ForwardConv

SpecPad == InitPad /\ [][NextPad]_vars

----------------------------------------------------------------------------
(* Properties of the depth scaler (SpecScale).                             *)

\* number of block instances copied from substage i
Instances(seq, i) == Cardinality({j \in 1..Len(seq) : seq[j] = i})

DepthAtLeastOne == args.depth_multiplier.n >= args.depth_multiplier.d

TotalScaled ==
    Ceil(Sum(args.repeats) * args.depth_multiplier.n, args.depth_multiplier.d)

\* C1 as stated: for every stage and every depth multiplier d > 0 the scaled
\* stage has exactly ceil(sum(r_i) * d) block instances.
C1_SumExactForEveryMultiplier ==
    pc = "done" => Len(ret) = TotalScaled

\* C1, amended: when the depth multiplier is >= 1, or the stage has a single
\* substage, the scaled stage has exactly ceil(sum(r_i) * d) block
\* instances, and they are the per-substage counts added up.
C1_SumExactWhenNotShrinking ==
    (pc = "done" /\ (DepthAtLeastOne \/ Len(args.repeats) = 1)) =>
        /\ Len(ret) = TotalScaled
        /\ Sum([i \in 1..Len(args.repeats) |-> Instances(ret, i)]) = TotalScaled

\* a two-substage stage scaled by 1.5: 5 repeats become ceil(7.5) = 8
C1_Witness ==
    /\ pc = "done"
    /\ args.repeats = <<2, 3>>
    /\ args.depth_multiplier = Frac(6, 4)
    /\ Len(ret) = 8

\* C2: every substage of a scaled stage keeps at least one block instance,
\* whatever the depth multiplier.
C2_EveryScaledRepeatAtLeastOne ==
    pc = "done" =>
        \A i \in 1..Len(args.repeats) : Instances(ret, i) >= 1

\* a shrinking multiplier whose rounded share is 0 for a substage
C2_Witness ==
    /\ pc = "done"
    /\ args.repeats = <<1, 1, 1>>
    /\ args.depth_multiplier = Frac(1, 4)
    /\ ret = <<1, 2, 3>>

----------------------------------------------------------------------------
(* Properties of the channel rounder (SpecRound).                          *)

ScaledTarget == Frac(args.channel * args.arch_params[1].n, args.arch_params[1].d)

EffectiveMin ==
    IF args.global_params.channel_min = 0
    THEN args.global_params.channel_divisor
    ELSE args.global_params.channel_min

\* the multiple of the divisor nearest to the scaled target (ties upwards)
NearestMultiple ==
    LET dv == args.global_params.channel_divisor
        v == ScaledTarget
    IN  CHOOSE m \in 0..(v.n + dv) :
            /\ m % dv = 0
            /\ 2 * m * v.d <= 2 * v.n + dv * v.d
            /\ 2 * v.n + dv * v.d < 2 * (m + dv) * v.d

\* C4: for every channel count, multiplier, divisor and min_value the result
\* of round_channels is never below max(min_value, divisor) and never more
\* than 10% below the scaled target (channel * multiplier): where the nearest
\* divisor multiple is more than 10% below the target, the next divisor
\* multiple up is taken instead of it; the result is the multiple so chosen,
\* or min_value when that is larger.
C4_NeverBelowMaxOfMinAndDivisor ==
    pc # "call" =>
        LET dv == args.global_params.channel_divisor
            low == 10 * NearestMultiple * ScaledTarget.d < 9 * ScaledTarget.n
            chosen == IF low THEN NearestMultiple + dv ELSE NearestMultiple
        IN  /\ ret[1] >= Max(args.global_params.channel_min, dv)
            /\ 10 * ret[1] * ScaledTarget.d >= 9 * ScaledTarget.n
            /\ ret[1] = Max(EffectiveMin, chosen)
            /\ chosen >= EffectiveMin => ret[1] = chosen

\* 10 * 1.0 = 10 has 8 as its nearest multiple of 8, which is below 90% of
\* 10, so the next multiple, 16, is returned
C4_Witness ==
    /\ pc # "call"
    /\ args.channel = 10
    /\ args.arch_params[1] = Frac(4, 4)
    /\ args.global_params = [channel_divisor |-> 8, channel_min |-> 0]
    /\ NearestMultiple = 8
    /\ 10 * NearestMultiple * ScaledTarget.d < 9 * ScaledTarget.n
    /\ ret[1] = 16

\* C5 as stated: round(round(c)) = round(c) for every c, multiplier,
\* divisor and min_value.
C5_IdempotentAlways ==
    pc = "rerounded" => ret[2] = ret[1]

\* C5, amended: round(round(c)) = round(c) when the multiplier is 1 and
\* min_value is not given or is a multiple of the divisor.
C5_IdempotentAtUnitMultiplier ==
    (/\ pc = "rerounded"
     /\ args.arch_params[1].n = args.arch_params[1].d
     /\ args.global_params.channel_min % args.global_params.channel_divisor = 0)
        => ret[2] = ret[1]

\* 13 rounds to 16 with divisor 8, and 16 rounds to itself
C5_Witness ==
    /\ pc = "rerounded"
    /\ args.channel = 13
    /\ args.arch_params[1] = Frac(4, 4)
    /\ args.global_params = [channel_divisor |-> 8, channel_min |-> 0]
    /\ ret = <<16, 16>>

----------------------------------------------------------------------------
(* Properties of the padding resolver (SpecPad).                           *)

IsSame == args.padding.kind = "str" /\ args.padding.v \in {"same", "SAME"}

IsValid == args.padding.kind = "str" /\ args.padding.v \in {"valid", "VALID"}

StaticSame == args.stride = 1 /\ (args.dilation * (args.kernel_size - 1)) % 2 = 0

SymmetricDefault ==
    ((args.stride - 1) + args.dilation * (args.kernel_size - 1)) \div 2

\* C7 as stated: 'valid' -> 0; static 'same' -> the symmetric formula;
\* other 'same' -> 0 and dynamic; any other value -> the symmetric formula.
C7_AnyOtherValueIsSymmetric ==
    pc # "call" =>
        ret.gp = IF IsValid THEN [padding |-> 0, dynamic |-> FALSE]
                 ELSE IF IsSame /\ ~StaticSame THEN [padding |-> 0, dynamic |-> TRUE]
                 ELSE [padding |-> SymmetricDefault, dynamic |-> FALSE]

\* C7, amended: as stated for string modes (compared case-insensitively);
\* a padding that is not a string (a number) is returned unchanged, static.
C7_PaddingByMode ==
    pc # "call" =>
        ret.gp = IF args.padding.kind # "str"
                 THEN [padding |-> args.padding.v, dynamic |-> FALSE]
                 ELSE IF IsValid THEN [padding |-> 0, dynamic |-> FALSE]
                 ELSE IF IsSame /\ ~StaticSame THEN [padding |-> 0, dynamic |-> TRUE]
                 ELSE [padding |-> SymmetricDefault, dynamic |-> FALSE]

\* 'same' with stride 1 and an even kernel is resolved dynamically
C7_Witness ==
    /\ pc # "call"
    /\ IsSame
    /\ args.stride = 1
    /\ args.kernel_size = 2
    /\ args.dilation = 1
    /\ ret.gp = [padding |-> 0, dynamic |-> TRUE]

SevenBySeven ==
    /\ IsSame
    /\ args.x = <<7, 7>>
    /\ args.kernel_size = 3
    /\ args.stride = 2
    /\ args.dilation = 1

\* C8 as stated: 7x7, kernel 3, stride 2, dilation 1 is padded (0, 1) per
\* axis, a total of 1.
C8_SevenPadsZeroOne ==
    (pc = "done" /\ SevenBySeven) => ret.fwd.pads = <<0, 1, 0, 1>>

\* C8, amended: 7x7, kernel 3, stride 2, dilation 1 is padded (1, 1) per
\* axis, a total of 2, the value of the ceil-based formula
\* max(0, (ceil(7/2) - 1) * 2 + (3 - 1) * 1 + 1 - 7).
C8_SevenPadsOneOne ==
    (pc = "done" /\ SevenBySeven) =>
        /\ ret.conv.cls = "Conv2dSame"
        /\ ret.fwd.pads = <<1, 1, 1, 1>>
        /\ ret.fwd.pads[1] + ret.fwd.pads[2] = Max(0, (Ceil(7, 2) - 1) * 2 + (3 - 1) * 1 + 1 - 7)
        /\ ret.fwd.pads[3] + ret.fwd.pads[4] = Max(0, (Ceil(7, 2) - 1) * 2 + (3 - 1) * 1 + 1 - 7)

C8_Witness ==
    /\ pc = "done"
    /\ SevenBySeven
    /\ ret.fwd.pads = <<1, 1, 1, 1>>
    /\ ret.fwd.shape = <<4, 4>>

\* C9: a convolution created with padding mode 'same' maps every spatial
\* size in >= 1 to floor((in + pad_total - dilation*(kernel-1) - 1)/stride) + 1
\* = ceil(in/stride), in the static and in the dynamic branch, and it never
\* rejects its input.
C9_SameOutputIsCeil ==
    (pc \in {"done", "error"} /\ IsSame) =>
        /\ pc = "done"
        /\ ret.fwd.shape = <<Ceil(args.x[1], args.stride), Ceil(args.x[2], args.stride)>>
        /\ \A ax \in 1..2 :
             LET pad_total == IF ax = 1 THEN ret.fwd.pads[3] + ret.fwd.pads[4]
                              ELSE ret.fwd.pads[1] + ret.fwd.pads[2]
             IN  ((args.x[ax] + pad_total - args.dilation * (args.kernel_size - 1) - 1)
                    \div args.stride) + 1 = Ceil(args.x[ax], args.stride)

\* the dynamic branch with the computed pad clipped to 0 on one axis
C9_Witness ==
    /\ pc = "done"
    /\ IsSame
    /\ args.kernel_size = 1
    /\ args.stride = 2
    /\ args.x = <<4, 5>>
    /\ ret.conv.cls = "Conv2dSame"
    /\ ret.fwd.pads = <<0, 0, 0, 0>>
    /\ ret.fwd.shape = <<2, 3>>

\* the total padding of the formula along an axis of input size in
SamePadTotal(in) ==
    Max(0, (Ceil(in, args.stride) - 1) * args.stride
           + (args.kernel_size - 1) * args.dilation + 1 - in)

\* C16: a dynamic same-padding convolution pads, per spatial axis of input
\* size in, a total of max(0, (ceil(in/stride) - 1) * stride
\* + (kernel - 1) * dilation + 1 - in), floor(total/2) of it on the leading
\* edge and total - floor(total/2) on the trailing edge (leading <= trailing
\* <= leading + 1), and then applies the convolution with zero padding.
C16_DynamicPadSplit ==
    (pc = "done" /\ ret.conv.cls = "Conv2dSame") =>
        LET left == ret.fwd.pads[1]
            right == ret.fwd.pads[2]
            top == ret.fwd.pads[3]
            bottom == ret.fwd.pads[4]
            total_h == SamePadTotal(args.x[1])
            total_w == SamePadTotal(args.x[2])
        IN  /\ top + bottom = total_h
            /\ left + right = total_w
            /\ top = total_h \div 2 /\ bottom = total_h - total_h \div 2
            /\ left = total_w \div 2 /\ right = total_w - total_w \div 2
            /\ top <= bottom /\ bottom <= top + 1
            /\ left <= right /\ right <= left + 1
            /\ ret.conv.padding = 0
            /\ ret.fwd.shape =
                 <<ConvOutSize(args.x[1] + total_h, args.kernel_size, args.stride, 0,
                               args.dilation),
                   ConvOutSize(args.x[2] + total_w, args.kernel_size, args.stride, 0,
                               args.dilation)>>

\* an odd total on one axis, none on the other
C16_Witness ==
    /\ pc = "done"
    /\ ret.conv.cls = "Conv2dSame"
    /\ args.kernel_size = 3
    /\ args.stride = 3
    /\ args.dilation = 1
    /\ args.x = <<8, 6>>
    /\ ret.fwd.pads = <<0, 0, 0, 1>>

----------------------------------------------------------------------------
(* SpecBlock: one block of the library is constructed and applied to a     *)
(* tensor with in_channel channels.                                        *)

InitBlock ==
    /\ pc = "call"
    /\ \E bt \in BlockClasses, ic \in {8, 16}, oc \in {8, 16}, k \in {3, 5},
          st \in {1, 2}, ns \in BOOLEAN, se \in {0, 1}, dp \in {0, 1},
          pt \in {"same", ""}, hw \in 1..MaxIn :
         args = [block_type |-> bt,
                 kw |-> [in_channel |-> ic, out_channel |-> oc, kernel_size |-> k,
                         stride |-> st, noskip |-> ns, se_ratio |-> Frac(se, 4),
                         drop_path_rate |-> Frac(dp, 10), exp_ratio |-> Frac(4, 1),
                         pad_type |-> StrPad(pt)],
                 x |-> [c |-> ic, hw |-> <<hw, hw>>]]
    /\ ret = <<>>
    /\ BuildIdle

ConstructBlock ==
    /\ pc = "call"
    /\ ret' = [block |-> MakeBlock(args.block_type, args.kw)]
    /\ pc' = "constructed"
    /\ UNCHANGED <<args, buildVars>>

ForwardBlock ==
    /\ pc = "constructed"
    /\ ret' = [block |-> ret.block, fwd |-> BlockForward(ret.block, args.x)]
    /\ pc' = "done"
    /\ UNCHANGED <<args, buildVars>>

NextBlock == ConstructBlock \/ ForwardBlock

SpecBlock == InitBlock /\ [][NextBlock]_vars

\* positions of an op in the list of sub-modules forward() called
Positions(ops, name) == {i \in 1..Len(ops) : ops[i] = name}

ResidualEligible ==
    /\ args.kw.stride = 1
    /\ args.kw.in_channel = args.kw.out_channel
    /\ ~args.kw.noskip

\* C10: in each block variant the residual connection is present iff
\* stride == 1 and in_channel == out_channel and not noskip; when present,
\* drop-path is applied to the branch output and then the input is added;
\* when absent neither drop-path nor the addition is applied.
C10_ResidualIffEligible ==
    pc = "done" =>
        /\ ~IsError(ret.fwd)
        /\ ret.block.common.has_residual = ResidualEligible
        /\ LET ops == ret.fwd.ops
               n == Len(ops)
           IN  IF ResidualEligible
               THEN /\ Positions(ops, "drop_path") = {n - 1}
                    /\ Positions(ops, "add") = {n}
                    /\ ret.fwd.out = args.x
               ELSE /\ Positions(ops, "drop_path") = {}
                    /\ Positions(ops, "add") = {}

\* an edge-residual block with a residual connection and a DropPath module
C10_Witness ==
    /\ pc = "done"
    /\ args.block_type = "er"
    /\ ResidualEligible
    /\ ret.block.common.drop_path.cls = "DropPath"
    /\ ret.fwd.ops = <<"conv_exp", "bn1", "act1", "se", "conv_pwl", "bn2", "drop_path", "add">>

\* the output of the block has the shape of its input
SameShape == ret.fwd.out = args.x

\* C11 as stated: a block with stride 1, in_channel == out_channel and
\* noskip false gives an output of the shape of its input, and a block for
\* which one of the three conditions is false gives an output whose shape
\* differs from its input's.
C11_SameShapeIffEligible ==
    pc = "done" =>
        /\ ~IsError(ret.fwd)
        /\ SameShape <=> ResidualEligible

\* C11, amended: the output has out_channel channels and, per axis, the
\* spatial size ceil(in / stride).  A residual-eligible block therefore
\* keeps the shape of its input; the shape differs exactly when
\* in_channel # out_channel or when stride is 2 on an axis longer than 1;
\* noskip changes no shape.
C11_ShapeByStrideAndChannels ==
    pc = "done" =>
        /\ ~IsError(ret.fwd)
        /\ ret.fwd.out = [c |-> args.kw.out_channel,
                          hw |-> <<Ceil(args.x.hw[1], args.kw.stride),
                                   Ceil(args.x.hw[2], args.kw.stride)>>]
        /\ ResidualEligible => SameShape
        /\ SameShape <=> /\ args.kw.in_channel = args.kw.out_channel
                         /\ args.kw.stride = 1 \/ args.x.hw = <<1, 1>>

\* a noskip block with stride 1 and equal channel counts: no residual, and
\* the output has the shape of the input
C11_Witness ==
    /\ pc = "done"
    /\ args.kw.noskip
    /\ args.kw.stride = 1
    /\ args.kw.in_channel = args.kw.out_channel
    /\ args.x.hw = <<4, 4>>
    /\ ~ret.block.common.has_residual
    /\ SameShape

----------------------------------------------------------------------------
(* Stage partitioner: _efficientnet_stages(network).  An nn.Sequential is  *)
(* [cls |-> "Sequential", children |-> <<modules>>]; network.blocks[i] is  *)
(* the Sequential of the block instances of stage i.                       *)

MaxPartStages == 8

Sequential(children) == [cls |-> "Sequential", children |-> children]

\* seq[i] of Python for an integer index i: negative indices count from the
\* end, an index outside -len..len-1 raises IndexError
PyIndex(seq, i) ==
    IF i >= 0 /\ i < Len(seq) THEN [value |-> seq[i + 1]]
    ELSE IF i < 0 /\ -i <= Len(seq) THEN [value |-> seq[Len(seq) + i + 1]]
    ELSE [error |-> "IndexError"]

\* out_channels[1:-2]
BlocksChannels(out_channels) ==
    IF Len(out_channels) <= 3 THEN <<>>
    ELSE SubSeq(out_channels, 2, Len(out_channels) - 2)

StageChannelIndices_consecutive == <<0, 1, 2, 3, -1>>

\* the index list of np.array(blocks_channels)[[0,1,2,4,-1]]
StageChannelIndices == <<0, 1, 2, 4, -1>>

\* np.array(blocks_channels)[[0,1,2,4,-1]]
TakeChannels(blocks_channels) ==
    LET picked == [g \in 1..Len(StageChannelIndices) |->
                       PyIndex(blocks_channels, StageChannelIndices[g])]
    IN  IF \E g \in 1..Len(picked) : IsError(picked[g])
        THEN [error |-> "IndexError"]
        ELSE [value |-> [g \in 1..Len(picked) |-> picked[g].value]]

efficientnet_stages_five(network) ==
    LET channels == TakeChannels(BlocksChannels(network.out_channels))
        blk(i) == Sequential(network.blocks[i + 1])
        n == Len(network.blocks)
    IN  IF IsError(channels) THEN channels
        ELSE IF n \notin {5, 6, 7} THEN [error |-> "RuntimeError", got |-> n]
        ELSE
        LET last_stage == IF n = 5 THEN blk(4)
                          ELSE IF n = 6 THEN blk(5)
                          ELSE Sequential(<<blk(5), blk(6)>>)
        IN  [stages |-> Sequential(<<
                 Sequential(<<network.conv_stem, network.bn1, network.act1, blk(0)>>),
                 blk(1),
                 blk(2),
                 Sequential(<<blk(3), blk(4)>>),
                 last_stage>>),
             channels |-> channels.value]

\* _efficientnet_stages(network): (nn.Sequential(*stages), list(channels)),
\* or the exception raised
efficientnet_stages(network) ==
    LET channels == TakeChannels(BlocksChannels(network.out_channels))
        blk(i) == Sequential(network.blocks[i + 1])
        n == Len(network.blocks)
    IN  IF IsError(channels) THEN channels
        ELSE IF n \notin {6, 7} THEN [error |-> "RuntimeError", got |-> n]
        ELSE
        LET last_stage == IF n = 6 THEN blk(5)
                          ELSE Sequential(<<blk(5), blk(6)>>)
        IN  [stages |-> Sequential(<<
                 Sequential(<<network.conv_stem, network.bn1, network.act1, blk(0)>>),
                 blk(1),
                 blk(2),
                 Sequential(<<blk(3), blk(4)>>),
                 last_stage>>),
             channels |-> channels.value]

----------------------------------------------------------------------------
(* SpecStages: a network is built from a block table of 0..MaxPartStages   *)
(* stages and handed to _efficientnet_stages.                              *)

\* stages of well-formed stage strings
PartStagePool == { <<Str_ir_r2>>, <<Str_ir_r2_c40, Str_ir_r1_c80>> }

InitStages ==
    /\ pc = "start"
    /\ \E n \in 0..MaxPartStages :
         \E tbl \in [1..n -> PartStagePool] :
           args = [block_def |-> tbl,
                   arch_params |-> <<Frac(1, 1), Frac(1, 1), 224, Frac(1, 5)>>,
                   global_params |-> GlobalParams,
                   num_classes |-> 1000,
                   in_channel |-> 3,
                   stem_size |-> 32,
                   fix_stem |-> FALSE,
                   num_features |-> 0,
                   fix_block_first_last |-> FALSE]
    /\ ret = <<>>
    /\ BuildIdle

\* stages, channels = _efficientnet_stages(network), called at position at
\* of the caller
Partition(at) ==
    /\ pc = at
    /\ LET res == efficientnet_stages(self)
       IN  /\ ret' = res
           /\ pc' = IF IsError(res) THEN "error" ELSE "partitioned"
    /\ UNCHANGED <<args, self, blocks_args, stage_args, repeats, idx>>

\* _efficientnet_stages(network) on the network built
EfficientnetStages == Partition("ready")

NextStages == Next \/ EfficientnetStages

SpecStages == InitStages /\ [][NextStages]_vars

\* the network was built and _efficientnet_stages has returned or raised
StagesCalled == "classifier" \in DOMAIN self /\ pc \in {"partitioned", "error"}

\* C12: _efficientnet_stages succeeds only for a network of exactly 6 or
\* exactly 7 top-level stages; for every other stage count it raises an
\* error and returns no stage grouping.
C12_OnlySixOrSevenStages ==
    StagesCalled =>
        IF Len(self.blocks) \in {6, 7}
        THEN pc = "partitioned" /\ ~IsError(ret) /\ "stages" \in DOMAIN ret
        ELSE pc = "error" /\ IsError(ret) /\ "stages" \notin DOMAIN ret

\* a network of 5 stages: the channel indices are all valid, the stage count
\* is rejected
C12_Witness ==
    /\ StagesCalled
    /\ Len(self.blocks) = 5
    /\ ret = [error |-> "RuntimeError", got |-> 5]

RECURSIVE Leaves(_)
\* the modules of an nn.Sequential that are not themselves nn.Sequential,
\* in the order forward() calls them
Leaves(module) ==
    IF "children" \in DOMAIN module
    THEN Flatten([i \in 1..Len(module.children) |-> Leaves(module.children[i])])
    ELSE <<module>>

\* the last block of a feature group
LastBlock(group) == Leaves(group)[Len(Leaves(group))]

\* C13: for a network of 6 or 7 stages the partitioner returns exactly 5
\* feature groups, in order stem + stage0, stage1, stage2, stage3 + stage4,
\* stage5 [+ stage6], and exactly 5 channel counts, the entries 0, 1, 2, 4
\* and -1 of the per-stage output-channel record; each channel count is the
\* out_channel of the last block of its group.
C13_FiveGroupsAndChannels ==
    pc = "partitioned" =>
        LET n == Len(self.blocks)
            groups == ret.stages.children
            per_stage == BlocksChannels(self.out_channels)
        IN  /\ n \in {6, 7}
            /\ Len(groups) = 5
            /\ Len(ret.channels) = 5
            /\ Leaves(groups[1]) = <<self.conv_stem, self.bn1, self.act1>> \o self.blocks[1]
            /\ Leaves(groups[2]) = self.blocks[2]
            /\ Leaves(groups[3]) = self.blocks[3]
            /\ Leaves(groups[4]) = self.blocks[4] \o self.blocks[5]
            /\ Leaves(groups[5]) = IF n = 6 THEN self.blocks[6]
                                   ELSE self.blocks[6] \o self.blocks[7]
            /\ Len(per_stage) = n
            /\ ret.channels = <<per_stage[1], per_stage[2], per_stage[3], per_stage[5],
                                per_stage[n]>>
            /\ \A g \in 1..5 : ret.channels[g] = LastBlock(groups[g]).common.out_channel

\* seven stages whose fourth and fifth stage end on different channel counts
C13_Witness ==
    /\ pc = "partitioned"
    /\ Len(self.blocks) = 7
    /\ BlocksChannels(self.out_channels) = <<24, 24, 80, 24, 80, 80, 24>>
    /\ ret.channels = <<24, 24, 80, 80, 24>>
    /\ Len(Leaves(ret.stages.children[4])) = 5

----------------------------------------------------------------------------
(* Model registry and factory: model_urls, supported_models, the variant   *)
(* functions efficientnet_b0 .. efficientnet_lite4, _efficientnet,         *)
(* _efficientnet_edge, _efficientnet_lite, _create_model, get_backbone.    *)

\* block_def of _efficientnet
EfficientnetBlockDef ==
    \* 'ds_r1_k3_s1_e1_c16_se0.25'
    << <<<<"d", "s", "_", "r", "1", "_", "k", "3", "_", "s", "1", "_", "e", "1", "_", "c", "1", "6", "_", "s", "e", "0", ".", "2", "5">>>>,
    \* 'ir_r2_k3_s2_e6_c24_se0.25'
       <<<<"i", "r", "_", "r", "2", "_", "k", "3", "_", "s", "2", "_", "e", "6", "_", "c", "2", "4", "_", "s", "e", "0", ".", "2", "5">>>>,
    \* 'ir_r2_k5_s2_e6_c40_se0.25'
       <<<<"i", "r", "_", "r", "2", "_", "k", "5", "_", "s", "2", "_", "e", "6", "_", "c", "4", "0", "_", "s", "e", "0", ".", "2", "5">>>>,
    \* 'ir_r3_k3_s2_e6_c80_se0.25'
       <<<<"i", "r", "_", "r", "3", "_", "k", "3", "_", "s", "2", "_", "e", "6", "_", "c", "8", "0", "_", "s", "e", "0", ".", "2", "5">>>>,
    \* 'ir_r3_k5_s1_e6_c112_se0.25'
       <<<<"i", "r", "_", "r", "3", "_", "k", "5", "_", "s", "1", "_", "e", "6", "_", "c", "1", "1", "2", "_", "s", "e", "0", ".", "2", "5">>>>,
    \* 'ir_r4_k5_s2_e6_c192_se0.25'
       <<<<"i", "r", "_", "r", "4", "_", "k", "5", "_", "s", "2", "_", "e", "6", "_", "c", "1", "9", "2", "_", "s", "e", "0", ".", "2", "5">>>>,
    \* 'ir_r1_k3_s1_e6_c320_se0.25'
       <<<<"i", "r", "_", "r", "1", "_", "k", "3", "_", "s", "1", "_", "e", "6", "_", "c", "3", "2", "0", "_", "s", "e", "0", ".", "2", "5">>>>>>

\* block_def of _efficientnet_edge
EdgeBlockDef ==
    \* 'er_r1_k3_s1_e4_c24_m24_noskip'
    << <<<<"e", "r", "_", "r", "1", "_", "k", "3", "_", "s", "1", "_", "e", "4", "_", "c", "2", "4", "_", "m", "2", "4", "_", "n", "o", "s", "k", "i", "p">>>>,
    \* 'er_r2_k3_s2_e8_c32'
       <<<<"e", "r", "_", "r", "2", "_", "k", "3", "_", "s", "2", "_", "e", "8", "_", "c", "3", "2">>>>,
    \* 'er_r4_k3_s2_e8_c48'
       <<<<"e", "r", "_", "r", "4", "_", "k", "3", "_", "s", "2", "_", "e", "8", "_", "c", "4", "8">>>>,
    \* 'ir_r5_k5_s2_e8_c96'
       <<<<"i", "r", "_", "r", "5", "_", "k", "5", "_", "s", "2", "_", "e", "8", "_", "c", "9", "6">>>>,
    \* 'ir_r4_k5_s1_e8_c144'
       <<<<"i", "r", "_", "r", "4", "_", "k", "5", "_", "s", "1", "_", "e", "8", "_", "c", "1", "4", "4">>>>,
    \* 'ir_r2_k5_s2_e8_c192'
       <<<<"i", "r", "_", "r", "2", "_", "k", "5", "_", "s", "2", "_", "e", "8", "_", "c", "1", "9", "2">>>>>>

\* block_def of _efficientnet_lite
LiteBlockDef ==
    \* 'ds_r1_k3_s1_e1_c16'
    << <<<<"d", "s", "_", "r", "1", "_", "k", "3", "_", "s", "1", "_", "e", "1", "_", "c", "1", "6">>>>,
    \* 'ir_r2_k3_s2_e6_c24'
       <<<<"i", "r", "_", "r", "2", "_", "k", "3", "_", "s", "2", "_", "e", "6", "_", "c", "2", "4">>>>,
    \* 'ir_r2_k5_s2_e6_c40'
       <<<<"i", "r", "_", "r", "2", "_", "k", "5", "_", "s", "2", "_", "e", "6", "_", "c", "4", "0">>>>,
    \* 'ir_r3_k3_s2_e6_c80'
       <<<<"i", "r", "_", "r", "3", "_", "k", "3", "_", "s", "2", "_", "e", "6", "_", "c", "8", "0">>>>,
    \* 'ir_r3_k5_s1_e6_c112'
       <<<<"i", "r", "_", "r", "3", "_", "k", "5", "_", "s", "1", "_", "e", "6", "_", "c", "1", "1", "2">>>>,
    \* 'ir_r4_k5_s2_e6_c192'
       <<<<"i", "r", "_", "r", "4", "_", "k", "5", "_", "s", "2", "_", "e", "6", "_", "c", "1", "9", "2">>>>,
    \* 'ir_r1_k3_s1_e6_c320'
       <<<<"i", "r", "_", "r", "1", "_", "k", "3", "_", "s", "1", "_", "e", "6", "_", "c", "3", "2", "0">>>>>>

\* model_urls: the weight file of every model name (the URL without the
\* prefix _complete_url adds)
model_urls ==
    [efficientnet_b0 |-> "tf_efficientnet_b0_ns-c0e6a31c.pth",
     efficientnet_b1 |-> "tf_efficientnet_b1_ns-99dd0c41.pth",
     efficientnet_b2 |-> "tf_efficientnet_b2_ns-00306e48.pth",
     efficientnet_b3 |-> "tf_efficientnet_b3_ns-9d44bf68.pth",
     efficientnet_b4 |-> "tf_efficientnet_b4_ns-d6313a46.pth",
     efficientnet_b5 |-> "tf_efficientnet_b5_ns-6f26d0cf.pth",
     efficientnet_b6 |-> "tf_efficientnet_b6_ns-51548356.pth",
     efficientnet_b7 |-> "tf_efficientnet_b7_ns-1dbc32de.pth",
     efficientnet_b8 |-> "tf_efficientnet_b8_ra-572d5dd9.pth",
     efficientnet_l2 |-> "tf_efficientnet_l2_ns-df73bb44.pth",
     efficientnet_l2_475 |-> "tf_efficientnet_l2_ns_475-bebbd00a.pth",
     efficientnet_edge_s |-> "efficientnet_es_ra-f111e99c.pth",
     efficientnet_edge_m |-> "tf_efficientnet_em-e78cfe58.pth",
     efficientnet_edge_l |-> "tf_efficientnet_el-5143854e.pth",
     efficientnet_lite0 |-> "tf_efficientnet_lite0-0aa007d2.pth",
     efficientnet_lite1 |-> "tf_efficientnet_lite1-bde8b488.pth",
     efficientnet_lite2 |-> "tf_efficientnet_lite2-dcccb7df.pth",
     efficientnet_lite3 |-> "tf_efficientnet_lite3-b733e338.pth",
     efficientnet_lite4 |-> "tf_efficientnet_lite4-741542c3.pth"]

\* supported_models = list(model_urls.keys()): the names in insertion order
supported_models ==
    <<"efficientnet_b0",
      "efficientnet_b1",
      "efficientnet_b2",
      "efficientnet_b3",
      "efficientnet_b4",
      "efficientnet_b5",
      "efficientnet_b6",
      "efficientnet_b7",
      "efficientnet_b8",
      "efficientnet_l2",
      "efficientnet_l2_475",
      "efficientnet_edge_s",
      "efficientnet_edge_m",
      "efficientnet_edge_l",
      "efficientnet_lite0",
      "efficientnet_lite1",
      "efficientnet_lite2",
      "efficientnet_lite3",
      "efficientnet_lite4">>

\* the variant functions efficientnet_b0 .. efficientnet_lite4: the family
\* function each one calls and the arch_params it passes
VariantFunctions ==
    [efficientnet_b0 |-> [family |-> "_efficientnet",
         arch_params |-> <<Frac(10, 10), Frac(10, 10), 224, Frac(2, 10)>>],
     efficientnet_b1 |-> [family |-> "_efficientnet",
         arch_params |-> <<Frac(10, 10), Frac(11, 10), 240, Frac(2, 10)>>],
     efficientnet_b2 |-> [family |-> "_efficientnet",
         arch_params |-> <<Frac(11, 10), Frac(12, 10), 260, Frac(3, 10)>>],
     efficientnet_b3 |-> [family |-> "_efficientnet",
         arch_params |-> <<Frac(12, 10), Frac(14, 10), 300, Frac(3, 10)>>],
     efficientnet_b4 |-> [family |-> "_efficientnet",
         arch_params |-> <<Frac(14, 10), Frac(18, 10), 380, Frac(4, 10)>>],
     efficientnet_b5 |-> [family |-> "_efficientnet",
         arch_params |-> <<Frac(16, 10), Frac(22, 10), 456, Frac(4, 10)>>],
     efficientnet_b6 |-> [family |-> "_efficientnet",
         arch_params |-> <<Frac(18, 10), Frac(26, 10), 528, Frac(5, 10)>>],
     efficientnet_b7 |-> [family |-> "_efficientnet",
         arch_params |-> <<Frac(20, 10), Frac(31, 10), 600, Frac(5, 10)>>],
     efficientnet_b8 |-> [family |-> "_efficientnet",
         arch_params |-> <<Frac(22, 10), Frac(36, 10), 672, Frac(5, 10)>>],
     efficientnet_l2 |-> [family |-> "_efficientnet",
         arch_params |-> <<Frac(43, 10), Frac(53, 10), 800, Frac(5, 10)>>],
     efficientnet_l2_475 |-> [family |-> "_efficientnet",
         arch_params |-> <<Frac(43, 10), Frac(53, 10), 475, Frac(5, 10)>>],
     efficientnet_edge_s |-> [family |-> "_efficientnet_edge",
         arch_params |-> <<Frac(10, 10), Frac(10, 10), 224, Frac(2, 10)>>],
     efficientnet_edge_m |-> [family |-> "_efficientnet_edge",
         arch_params |-> <<Frac(10, 10), Frac(11, 10), 240, Frac(2, 10)>>],
     efficientnet_edge_l |-> [family |-> "_efficientnet_edge",
         arch_params |-> <<Frac(12, 10), Frac(14, 10), 300, Frac(3, 10)>>],
     efficientnet_lite0 |-> [family |-> "_efficientnet_lite",
         arch_params |-> <<Frac(10, 10), Frac(10, 10), 224, Frac(2, 10)>>],
     efficientnet_lite1 |-> [family |-> "_efficientnet_lite",
         arch_params |-> <<Frac(10, 10), Frac(11, 10), 240, Frac(2, 10)>>],
     efficientnet_lite2 |-> [family |-> "_efficientnet_lite",
         arch_params |-> <<Frac(11, 10), Frac(12, 10), 260, Frac(3, 10)>>],
     efficientnet_lite3 |-> [family |-> "_efficientnet_lite",
         arch_params |-> <<Frac(12, 10), Frac(14, 10), 280, Frac(3, 10)>>],
     efficientnet_lite4 |-> [family |-> "_efficientnet_lite",
         arch_params |-> <<Frac(14, 10), Frac(18, 10), 300, Frac(3, 10)>>]]

\* the empty dict
EmptyDict == [k \in {} |-> 0]

\* the family functions: block_def, global_params and the keyword arguments
\* they add for EfficientNet.__init__
Families ==
    [_efficientnet |->
         [block_def |-> EfficientnetBlockDef,
          global_params |-> [GlobalParams EXCEPT !.act_layer = "Swish"],
          kwargs |-> EmptyDict],
     _efficientnet_edge |->
         [block_def |-> EdgeBlockDef,
          global_params |-> [GlobalParams EXCEPT !.act_layer = "ReLU"],
          kwargs |-> EmptyDict],
     _efficientnet_lite |->
         [block_def |-> LiteBlockDef,
          global_params |-> [GlobalParams EXCEPT !.act_layer = "ReLU6"],
          kwargs |-> [fix_stem |-> TRUE, num_features |-> 1280,
                      fix_block_first_last |-> TRUE]]]

\* _create_model up to the call EfficientNet(block_def, arch_params,
\* global_params, **kwargs): the arguments of that call, the defaults of
\* EfficientNet.__init__ filled in
create_model(block_def, global_params, arch_params, num_classes, override_params, pretrained, kwargs) ==
    LET kw == IF ~pretrained THEN [num_classes |-> num_classes] @@ kwargs ELSE kwargs
    IN  [block_def |-> block_def,
         arch_params |-> arch_params,
         global_params |-> override_params @@ global_params,
         num_classes |-> Get(kw, "num_classes", 1000),
         in_channel |-> Get(kw, "in_channel", 3),
         stem_size |-> Get(kw, "stem_size", 32),
         fix_stem |-> Get(kw, "fix_stem", FALSE),
         num_features |-> Get(kw, "num_features", 0),
         fix_block_first_last |-> Get(kw, "fix_block_first_last", FALSE)]

\* eval('<model_name>(pretrained=pretrained, num_classes=n_classes,
\* **kwargs)') up to the call of EfficientNet: NameError when no function of
\* that name exists
VariantCall(model_name, pretrained, num_classes, kwargs) ==
    IF model_name \notin DOMAIN VariantFunctions THEN [error |-> "NameError"]
    ELSE LET v == VariantFunctions[model_name]
             f == Families[v.family]
         IN  create_model(f.block_def, f.global_params, v.arch_params, num_classes,
                          Get(kwargs, "override_params", EmptyDict), pretrained,
                          f.kwargs @@ Remove(kwargs, "override_params"))

IsSupported_any(model_name) == TRUE

\* model_name in supported_models
IsSupported(model_name) ==
    \E i \in 1..Len(supported_models) : supported_models[i] = model_name

\* names get_backbone is called with that are not model names
UnsupportedNames == {"efficientnet_b9", "resnet50"}

\* keyword arguments get_backbone is called with
CallerKwargs ==
    {EmptyDict,
     [override_params |-> [drop_path_rate |-> Frac(5, 10)]],
     [override_params |-> [channel_divisor |-> 4]]}

FeatureTypes == {"tri_stage_fpn", "classifier", "bi_stage_fpn"}

InitBackbone ==
    /\ pc = "get_backbone"
    /\ \E name \in DOMAIN model_urls \cup UnsupportedNames, pt \in BOOLEAN,
          ft \in FeatureTypes, nc \in {1000, 10}, kw \in CallerKwargs :
         args = [model_name |-> name, pretrained |-> pt, feature_type |-> ft,
                 n_classes |-> nc, kwargs |-> kw]
    /\ ret = <<>>
    /\ BuildIdle

\* kwargs.setdefault('override_params', {'drop_path_rate': 0.0})
BackboneKwargs_setdefault(kwargs) ==
    kwargs @@ [override_params |-> [drop_path_rate |-> Frac(0, 10)]]

\* kwargs['override_params'] = {'drop_path_rate': 0.0}
BackboneKwargs(kwargs) ==
    [override_params |-> [drop_path_rate |-> Frac(0, 10)]] @@ kwargs

\* get_backbone up to the call of EfficientNet inside _create_model; passed
\* keeps the keyword arguments as the caller gave them
GetBackbone ==
    /\ pc = "get_backbone"
    /\ IF ~IsSupported(args.model_name)
       THEN /\ pc' = "error"
            /\ ret' = [error |-> "RuntimeError", model_name |-> args.model_name,
                       available |-> supported_models]
            /\ args' = args
       ELSE LET kwargs == BackboneKwargs(args.kwargs)
                ctor == VariantCall(args.model_name, args.pretrained, args.n_classes,
                                    kwargs)
            IN  IF IsError(ctor)
                THEN /\ pc' = "error"
                     /\ ret' = ctor
                     /\ args' = args
                ELSE /\ pc' = "start"
                     /\ ret' = ret
                     /\ args' = [call |-> [passed |-> args.kwargs]
                                           @@ [args EXCEPT !.kwargs = kwargs]]
                                  @@ ctor
    /\ UNCHANGED buildVars

\* _create_model after EfficientNet(...) returned: the pretrained weights
\* are fetched and loaded, and the classifier is replaced when num_classes
\* is not 1000
CreateModelLoad ==
    /\ pc = "ready"
    /\ self' = IF args.call.pretrained
               THEN [state_dict |-> model_urls[args.call.model_name],
                     classifier |-> IF args.call.n_classes # 1000
                                    THEN [cls |-> "Linear",
                                          in_features |-> self.num_features,
                                          out_features |-> args.call.n_classes]
                                    ELSE self.classifier] @@ self
               ELSE self
    /\ pc' = "created"
    /\ UNCHANGED <<args, ret, blocks_args, stage_args, repeats, idx>>

\* get_backbone: stages, channels = _efficientnet_stages(network)
BackboneStages == Partition("created")

\* EfficientNet.get_classifier
get_classifier(network) ==
    Sequential(<<network.conv_head, network.bn2, network.act2, network.global_pool,
                 network.flatten, network.dropout, network.classifier>>)

\* get_backbone from the test of feature_type to the end
WrapBackbone ==
    /\ pc = "partitioned"
    /\ IF args.call.feature_type = "tri_stage_fpn"
       THEN /\ ret' = [backbone |-> [cls |-> "Backbone", stages |-> ret.stages,
                                     channels |-> ret.channels]]
            /\ pc' = "done"
       ELSE IF args.call.feature_type = "classifier"
       THEN /\ ret' = [backbone |-> [cls |-> "ClassifierFeature", stages |-> ret.stages,
                                     classifier |-> get_classifier(self),
                                     n_classes |-> args.call.n_classes]]
            /\ pc' = "done"
       ELSE /\ ret' = [error |-> "NotImplementedError",
                       feature_type |-> args.call.feature_type]
            /\ pc' = "error"
    /\ UNCHANGED <<args, self, blocks_args, stage_args, repeats, idx>>

NextBackbone == GetBackbone \/ Next \/ CreateModelLoad \/ BackboneStages \/ WrapBackbone

SpecBackbone == InitBackbone /\ [][NextBackbone]_vars

\* the arguments get_backbone was called with
BackboneCall == IF "call" \in DOMAIN args THEN args.call ELSE args

\* C14: get_backbone called with a model name that is not in the supported
\* set raises a configuration error that names the offending model and lists
\* the supported names; this happens before any network is constructed and
\* before any pretrained weights are fetched, and no backbone is returned.
C14_UnsupportedNameRejected ==
    BackboneCall.model_name \notin DOMAIN model_urls =>
        /\ pc \in {"get_backbone", "error"}
        /\ DOMAIN self = {}
        /\ blocks_args = <<>>
        /\ "call" \notin DOMAIN args
        /\ pc = "error" =>
             /\ ret = [error |-> "RuntimeError",
                       model_name |-> BackboneCall.model_name,
                       available |-> supported_models]
             /\ Len(ret.available) = Cardinality(DOMAIN model_urls)
             /\ \A name \in DOMAIN model_urls :
                  \E i \in 1..Len(ret.available) : ret.available[i] = name

\* an unknown name with pretrained weights requested
C14_Witness ==
    /\ pc = "error"
    /\ args.model_name = "efficientnet_b9"
    /\ args.pretrained
    /\ ret.error = "RuntimeError"
    /\ ret.model_name = "efficientnet_b9"
    /\ DOMAIN self = {}

\* the global parameters of the family function behind a model name
FamilyGlobalParams(model_name) ==
    Families[VariantFunctions[model_name].family].global_params

\* C21: every network obtained through get_backbone is built with global
\* drop_path_rate 0.0 and, in every other global parameter, the value of its
\* family function, for every supported model name and whatever keyword
\* arguments the caller passed (an override_params of the caller is replaced
\* by {drop_path_rate: 0.0}); every block then has drop-path rate 0 and an
\* Identity in place of the DropPath operation.
C21_BackboneWithoutDropPath ==
    "call" \in DOMAIN args =>
        /\ args.call.kwargs.override_params = [drop_path_rate |-> Frac(0, 10)]
        /\ DOMAIN args.global_params = DOMAIN FamilyGlobalParams(args.call.model_name)
        /\ args.global_params.drop_path_rate.n = 0
        /\ \A k \in DOMAIN args.global_params \ {"drop_path_rate"} :
             args.global_params[k] = FamilyGlobalParams(args.call.model_name)[k]
        /\ "blocks" \in DOMAIN self =>
             \A k \in 1..Len(BuiltLayers) :
                /\ BuiltLayers[k].common.drop_path_rate.n = 0
                /\ BuiltLayers[k].common.drop_path = Identity
        /\ pc = "done" => Len(BuiltLayers) = self.total_layers /\ Len(BuiltLayers) > 0

\* efficientnet_b0 asked for with override_params {drop_path_rate: 0.5}: the
\* backbone is returned, all 16 blocks (the third has a residual connection)
\* built without DropPath
C21_Witness ==
    /\ pc = "done"
    /\ args.call.model_name = "efficientnet_b0"
    /\ args.call.passed = [override_params |-> [drop_path_rate |-> Frac(5, 10)]]
    /\ args.global_params.drop_path_rate = Frac(0, 10)
    /\ args.global_params.channel_divisor = 8
    /\ Len(BuiltLayers) = 16
    /\ BuiltLayers[3].common.has_residual
    /\ BuiltLayers[3].common.drop_path = Identity
    /\ BuiltLayers[16].common.drop_path = Identity

----------------------------------------------------------------------------
(* EfficientNet.forward on tensor shapes.  A 4-d tensor (n, c, h, w) is    *)
(* [n |-> n, c |-> c, hw |-> <<h, w>>], a 2-d tensor (n, f) is <<n, f>>.   *)

MaxBatch == 2

\* one more block applied to the shapes so far
BlockStep(layer, before) ==
    IF IsError(before) THEN before
    ELSE LET y == BlockForward(layer, before.shapes[Len(before.shapes)])
         IN  IF IsError(y) THEN y
             ELSE [shapes |-> Append(before.shapes, y.out)]

RECURSIVE BlocksForward(_, _, _)
\* self.blocks(x): [shapes |-> the shapes after each of the first i blocks
\* (x itself first)], or the error a block raises
BlocksForward(layers, i, x) ==
    IF i = 0 THEN [shapes |-> <<x>>]
    ELSE BlockStep(layers[i], BlocksForward(layers, i - 1, x))

LinearForward_in_features(linear, x) ==
    IF x[2] # linear.in_features THEN [error |-> "RuntimeError"]
    ELSE [shape |-> <<x[1], linear.in_features>>]

\* nn.Linear applied to a 2-d tensor: [shape |-> (n, out_features)]
LinearForward(linear, x) ==
    IF x[2] # linear.in_features THEN [error |-> "RuntimeError"]
    ELSE [shape |-> <<x[1], linear.out_features>>]

\* the stem and head convolutions, addressed like the convolutions of a block
StemAndHead(network) ==
    [convs |-> [conv_stem |-> network.conv_stem, conv_head |-> network.conv_head]]

\* global_pool, flatten, dropout and classifier on the head's output
PoolAndClassify(network, n, shapes, head) ==
    LET size == network.global_pool.output_size
        pooled == [c |-> head.c, hw |-> <<size, size>>]
        out == LinearForward(network.classifier, <<n, head.c * size * size>>)
    IN  IF IsError(out) THEN out
        ELSE [shapes |-> shapes \o <<head, pooled>>, out |-> out.shape]

\* conv_head (bn2 and act2 keep the shape) on the output of the last block
HeadForward(network, n, feats) ==
    IF IsError(feats) THEN feats
    ELSE LET head == ApplyLayer(StemAndHead(network), "conv_head",
                                feats.shapes[Len(feats.shapes)])
         IN  IF IsError(head) THEN head
             ELSE PoolAndClassify(network, n, feats.shapes, head)

\* the blocks on the output of the stem
FeaturesForward(network, n, stem) ==
    IF IsError(stem) THEN stem
    ELSE HeadForward(network, n,
                     BlocksForward(Flatten(network.blocks),
                                   Len(Flatten(network.blocks)), stem))

\* EfficientNet.forward(x): the shapes of the 4-d tensors in the order they
\* are produced (bn, act and dropout keep the shape) and the shape of the
\* result, or the error raised
forward(network, x) ==
    FeaturesForward(network, x.n,
                    ApplyLayer(StemAndHead(network), "conv_stem",
                               [c |-> x.c, hw |-> x.hw]))

----------------------------------------------------------------------------
(* SpecForward: a variant function builds a network (not pretrained) for   *)
(* num_classes classes and the network is applied to a batch of images.    *)

\* height = width of the images
ImageSizes == {256, 224, 33}

InitForward ==
    /\ pc = "start"
    /\ \E name \in DOMAIN VariantFunctions, nc \in {1000, 10}, n \in 1..MaxBatch,
          c \in {3, 1}, size \in ImageSizes :
         args = [x |-> [n |-> n, c |-> c, hw |-> <<size, size>>]]
                @@ VariantCall(name, FALSE, nc, EmptyDict)
    /\ ret = <<>>
    /\ BuildIdle

\* model(x)
Forward ==
    /\ pc = "ready"
    /\ ret' = forward(self, args.x)
    /\ pc' = "forwarded"
    /\ UNCHANGED <<args, self, blocks_args, stage_args, repeats, idx>>

NextForward == Next \/ Forward

SpecForward == InitForward /\ [][NextForward]_vars

UnitMultipliers ==
    /\ args.arch_params[1].n = args.arch_params[1].d
    /\ args.arch_params[2].n = args.arch_params[2].d

\* C15: a network built for width/depth multipliers (1.0, 1.0) with the
\* default stem and num_classes classes maps a batch (N, 3, 256, 256) to an
\* output of shape (N, num_classes), (1, 1000) for one image and 1000
\* classes; every intermediate spatial size is >= 1 and the final linear
\* classifier maps num_features to num_classes.
C15_ClassifierOutputShape ==
    (pc = "forwarded" /\ UnitMultipliers /\ args.stem_size = 32
       /\ args.x.c = 3 /\ args.x.hw = <<256, 256>>) =>
        /\ ~IsError(ret)
        /\ ret.out = <<args.x.n, args.num_classes>>
        /\ (args.x.n = 1 /\ args.num_classes = 1000) => ret.out = <<1, 1000>>
        /\ \A i \in 1..Len(ret.shapes) :
             ret.shapes[i].hw[1] >= 1 /\ ret.shapes[i].hw[2] >= 1
        /\ self.classifier.in_features = self.num_features
        /\ self.classifier.out_features = args.num_classes
        /\ ret.shapes[Len(ret.shapes)].c = self.num_features

\* efficientnet_b0 on one 256x256 image: 128x128 after the stem, 8x8 before
\* the pooling, 1280 features, 1000 logits
C15_Witness ==
    /\ pc = "forwarded"
    /\ UnitMultipliers
    /\ args.global_params.act_layer = "Swish"
    /\ args.x = [n |-> 1, c |-> 3, hw |-> <<256, 256>>]
    /\ args.num_classes = 1000
    /\ ret.shapes[1] = [c |-> 32, hw |-> <<128, 128>>]
    /\ ret.shapes[Len(ret.shapes) - 1] = [c |-> 1280, hw |-> <<8, 8>>]
    /\ ret.out = <<1, 1000>>

====
